---- MODULE Spec2Model ----
(***************************************************************************)
(* The request/response routers of wasm-websocket-rust-starter.            *)
(*                                                                         *)
(*   cg-types      ResponseRouter: cancellation tokens, the two registry   *)
(*                 maps, ActiveCall and its handles (ObserverImpl,         *)
(*                 Emitter, Completer).                                    *)
(*   shared-types  Receiver / handle_request / gen_call, the synchronous   *)
(*                 PathfinderHandler and the two transports (the WASM      *)
(*                 callback and the WebSocket sender).                     *)
(*                                                                         *)
(* The two routers share no state.  `host` says which embedding drives     *)
(* which router; it is chosen at construction.                             *)
(***************************************************************************)
EXTENDS Integers, Sequences, FiniteSets, TLC

\* ----------------------------------------------------------------- bounds
\* Operations (requests dispatched, handle methods called, handles cloned or
\* dropped, transport tasks run) in one run.  It bounds every counter of the
\* model: the calls made, the responses sent, the clones of a handle.
MaxSteps == 5

\* ------------------------------------------------------------ input sets
\* Reply contexts (RCtx: Clone + Hash + Eq) and caller-assigned request ids.
RCtx == {"c1", "c2"}
RequestIds == {1, 2}
\* Operation tags of the cg-types catalog that are dispatched here.
CgOps == {"find_shortest_path"}
\* Values a handler emits, and the texts of the other outcomes.
NextValues == {"v1", "v2"}
ErrorTexts == {"failed"}
CompleteNotes == {"done"}
AbortReasons == {"cancel", "timeout"}

\* Requests served by one shared-types session in one run.
MaxRequests == 2

\* The largest finite f64 of the model.
F64Max == 50

\* The graphs sent to the shared-types handler: a triangle with a direct edge,
\* a graph whose target is cut off, an edge naming a point that does not
\* exist, and two coincident points joined by an edge.
Triangle == [points |-> <<<<0, 0>>, <<3, 0>>, <<0, 4>>>>,
             edges |-> <<[from |-> 0, to |-> 1], [from |-> 1, to |-> 2], [from |-> 0, to |-> 2]>>]
CutOff == [points |-> <<<<0, 0>>, <<3, 0>>, <<6, 8>>>>,
           edges |-> <<[from |-> 0, to |-> 1]>>]
Dangling == [points |-> <<<<0, 0>>, <<3, 0>>>>,
             edges |-> <<[from |-> 0, to |-> 2]>>]
Coincident == [points |-> <<<<0, 0>>, <<3, 0>>, <<3, 0>>>>,
               edges |-> <<[from |-> 0, to |-> 1], [from |-> 1, to |-> 2]>>]
Graphs == {Triangle, CutOff, Dangling, Coincident}
\* Two points so far apart that the square of their distance overflows.
Far == [points |-> <<<<0, 0>>, <<F64Max, 0>>>>,
        edges |-> <<[from |-> 0, to |-> 1]>>]

ShortestPathParams ==
    {[points |-> g.points, edges |-> g.edges, start_idx |-> 0, end_idx |-> 2] : g \in Graphs}
GraphMetricsParams ==
    {[points |-> g.points, edges |-> g.edges] : g \in {Triangle, Dangling, Far}}

CallGen ==
    {[variant |-> "find_shortest_path", params |-> p] : p \in ShortestPathParams}
    \cup {[variant |-> "compute_graph_metrics", params |-> p] : p \in GraphMetricsParams}

\* The decoded requests of the shared-types router: RequestEnum.
Requests ==
    {[op |-> "Call", id |-> id, call |-> call] : id \in RequestIds, call \in CallGen}
    \cup {[op |-> "Abort", id |-> id, reason |-> reason] : id \in RequestIds, reason \in AbortReasons}

NoCall == 0
NoToken == 0
NoProbe == [kind |-> "none"]

VARIABLES
    host,               \* the embedding: "cg_types" (an application driving the
                        \* cg-types ResponseRouter), "wasm" (src-rust) or
                        \* "websocket" (pathfinder-server)
    steps,              \* operations performed so far
    tokens,             \* Seq(BOOLEAN): the Arc<AtomicBool> of every AbortController made
    calls,              \* Seq(ActiveCall): every ActiveCall made, in creation order
    handles,            \* per call: the handles that still own the ActiveCall
    abort_controllers,  \* ResponseRouter.abort_controllers: (RCtx, id) -> token
    mvp_rctxs,          \* ResponseRouter.mvp_rctxs: id -> Weak<RCtx> (the call owning the Arc)
    wire,               \* what wire_response_sender.send_response received, in order
    last,               \* the last request given to send_request
    sent,               \* shared-types: every WireResponse given to send_response, in call order
    invoked,            \* shared-types: the handler invocations of the last request
    ws_tasks,           \* websocket: the spawned send tasks that have not written yet
    frames,             \* what reached the peer (frames written, callback calls): indices into sent
    fate,               \* how the last handler invocation ended
    returned,           \* wasm: what the last send_request gave its caller
    stderr,             \* websocket: "Failed to parse request" lines logged
    probe               \* a function of the program under direct call: its
                        \* arguments and what it gave (NoProbe in a hosted run)

cg_vars == <<tokens, calls, handles, abort_controllers, mvp_rctxs, wire, last>>
shared_vars == <<sent, invoked, ws_tasks, frames, fate, returned, stderr>>
env == <<host, probe>>
vars == <<env, steps, cg_vars, shared_vars>>

Keys == RCtx \X RequestIds

\* The embeddings that drive the cg-types router; "cg_timed" is the one whose
\* run the wall clock advances in.
CgHosts == {"cg_types", "cg_timed"}

\* One operation of the run.
Step ==
    /\ steps < MaxSteps
    /\ steps' = steps + 1
    /\ UNCHANGED <<env, shared_vars>>

\* ------------------------------------------------- utils.rs: AbortController
\* AbortController::new(): a fresh flag, false.
AbortController_new == Len(tokens) + 1

\* AbortController::is_aborted / AbortSignal::is_aborted: load the shared flag.
is_aborted(t) == tokens[t]

\* AbortController::signal(): an AbortSignal over the same Arc.
signal(t) == t

\* AbortController::abort() as a fetch_xor(true): it flips the flag.
abort_flips(flags, t) == [flags EXCEPT ![t] = ~@]

\* AbortController::abort(): store(true).
abort(flags, t) == [flags EXCEPT ![t] = TRUE]

\* --------------------------------------------------------------- ActiveCall
ActiveCall(request_id, reply_context, abort_controller, method) ==
    [request_id |-> request_id, reply_context |-> reply_context,
     abort_controller |-> abort_controller, method |-> method]

NoHandles == [observer |-> 0, emitters |-> 0, completers |-> 0, current_time |-> 0]

\* The ActiveCall (and the Arc<RCtx> it owns) lives while some handle owns it:
\* the Box in an ObserverImpl, or the Arc<Box> shared by Emitters and Completers.
Retained(k) ==
    handles[k].observer + handles[k].emitters + handles[k].completers > 0

CallsOf(key) ==
    {k \in 1..Len(calls) :
        <<calls[k].reply_context, calls[k].request_id>> = key}

\* get_abort_signal giving the signal of whichever controller the registry
\* now holds under the call's key, instead of the call's own controller.
get_abort_signal_from_registry(k) ==
    signal(abort_controllers[<<calls[k].reply_context, calls[k].request_id>>])

\* ActiveResponder::get_abort_signal for call k.
get_abort_signal(k) == signal(calls[k].abort_controller)

\* ------------------------------------------------------------ ResponseRouter
WireResponse(request_id, kind, value) ==
    [id |-> request_id, kind |-> kind, value |-> value]

\* ResponseRouter::respond: forward (reply_context, WireResponse) to the sender.
\* `src` is the call whose handle produced it (NoCall for send_error).
respond(request_id, reply_context, kind, value, src) ==
    wire' = Append(wire, [rctx |-> reply_context,
                          response |-> WireResponse(request_id, kind, value),
                          call |-> src])

\* ResponseRouter::mvp_get_reply_context_from_request_id: upgrade the weak
\* reference stored under the id; "none" if absent or the Arc is gone.
mvp_get_reply_context_from_request_id(request_id) ==
    LET weak == mvp_rctxs[request_id]
    IN  IF weak # NoCall /\ Retained(weak)
        THEN calls[weak].reply_context
        ELSE "none"

\* ActiveCall::respond taking the reply context from the id's entry in the
\* lookup table instead of the call's own Arc<RCtx>.
ActiveCall_respond_via_lookup(k, kind, value) ==
    respond(calls[k].request_id,
            mvp_get_reply_context_from_request_id(calls[k].request_id),
            kind, value, k)

\* ActiveCall::respond consulting the call's token first and sending nothing
\* once it is aborted.
ActiveCall_respond_unless_aborted(k, kind, value) ==
    IF is_aborted(calls[k].abort_controller)
    THEN UNCHANGED wire
    ELSE respond(calls[k].request_id, calls[k].reply_context, kind, value, k)

\* ActiveCall::respond: the call's own id and its own strong reply context.
ActiveCall_respond(k, kind, value) ==
    respond(calls[k].request_id, calls[k].reply_context, kind, value, k)

\* create_responder without the final `a.abort()` on the replaced controller.
create_responder_keeps_existing(request_id, reply_context, method) ==
    /\ abort_controllers' =
          [abort_controllers EXCEPT ![<<reply_context, request_id>>] = AbortController_new]
    /\ mvp_rctxs' = [mvp_rctxs EXCEPT ![request_id] = Len(calls) + 1]
    /\ tokens' = Append(tokens, FALSE)
    /\ calls' = Append(calls,
          ActiveCall(request_id, reply_context, AbortController_new, method))

\* create_responder with `entry(request_id).or_insert(..)` on mvp_rctxs: an
\* id already present keeps its old weak reference.
create_responder_keeps_weak(request_id, reply_context, method) ==
    LET existing == abort_controllers[<<reply_context, request_id>>]
        fresh == Append(tokens, FALSE)
    IN  /\ abort_controllers' =
              [abort_controllers EXCEPT ![<<reply_context, request_id>>] = AbortController_new]
        /\ mvp_rctxs' = IF mvp_rctxs[request_id] = 0
                        THEN [mvp_rctxs EXCEPT ![request_id] = Len(calls) + 1]
                        ELSE mvp_rctxs
        /\ tokens' = IF existing # 0 THEN abort(fresh, existing) ELSE fresh
        /\ calls' = Append(calls,
              ActiveCall(request_id, reply_context, AbortController_new, method))

\* ResponseRouter::create_responder, for a call of `method`.
create_responder(request_id, reply_context, method) ==
    LET abort_controller == AbortController_new
        existing == abort_controllers[<<reply_context, request_id>>]
        fresh == Append(tokens, FALSE)
    IN  /\ abort_controllers' =
              [abort_controllers EXCEPT ![<<reply_context, request_id>>] = abort_controller]
        /\ mvp_rctxs' = [mvp_rctxs EXCEPT ![request_id] = Len(calls) + 1]
        /\ tokens' = IF existing # NoToken THEN abort(fresh, existing) ELSE fresh
        /\ calls' = Append(calls,
              ActiveCall(request_id, reply_context, abort_controller, method))

\* Utc::now().timestamp(): the wall clock in whole seconds.  A run of a host
\* passes within one second; the clock advances only in the run that has one.
Utc_now == IF probe.kind = "clock" THEN probe.now ELSE 0

\* ResponseRouter::create_observer: the combined handle owning the responder,
\* stamped with the clock.
create_observer ==
    handles' = Append(handles, [NoHandles EXCEPT !.observer = 1,
                                                 !.current_time = Utc_now])

\* router_gen::gen_call (cg-types): register the call, build its observer and
\* hand it to the handler method named by the operation's tag.
cg_gen_call(id, op, reply_context) ==
    /\ create_responder(id, reply_context, op)
    /\ create_observer
    /\ UNCHANGED wire

\* The Abort arm with the `controller.abort()` line left out.
send_request_abort_arm_skips(id, reply_context) ==
    UNCHANGED <<tokens, calls, handles, abort_controllers, mvp_rctxs, wire>>

\* The Abort arm looking the controller up by request id alone.
send_request_abort_arm_by_id(id, reply_context) ==
    /\ tokens' = [t \in DOMAIN tokens |->
                     \/ tokens[t]
                     \/ \E c \in RCtx : abort_controllers[<<c, id>>] = t]
    /\ UNCHANGED <<calls, handles, abort_controllers, mvp_rctxs, wire>>

\* send_request, Abort arm: trip the token stored under (reply_context, id).
send_request_abort_arm(id, reply_context) ==
    LET controller == abort_controllers[<<reply_context, id>>]
    IN  /\ tokens' = IF controller # NoToken THEN abort(tokens, controller) ELSE tokens
        /\ UNCHANGED <<calls, handles, abort_controllers, mvp_rctxs, wire>>

send_request_Abort(id, reason, reply_context) ==
    /\ host \in CgHosts
    /\ Step
    /\ send_request_abort_arm(id, reply_context)
    /\ last' = [op |-> "Abort", rctx |-> reply_context, id |-> id]

send_request_Call(id, op, reply_context) ==
    /\ host \in CgHosts
    /\ Step
    /\ cg_gen_call(id, op, reply_context)
    /\ last' = [op |-> "Call", rctx |-> reply_context, id |-> id]

\* ResponseRouter::send_error: an Error response for any id and context.
send_error(request_id, reply_context, error) ==
    /\ host \in CgHosts
    /\ Step
    /\ respond(request_id, reply_context, "Error", error, NoCall)
    /\ UNCHANGED <<tokens, calls, handles, abort_controllers, mvp_rctxs, last>>

\* ------------------------------------------------- the handles of one call
Consume(k, field) ==
    handles' = [handles EXCEPT ![k][field] = @ - 1]

HandleStep(k) ==
    /\ host \in CgHosts
    /\ Step
    /\ k \in 1..Len(calls)
    /\ UNCHANGED <<tokens, calls, abort_controllers, mvp_rctxs, last>>

\* ObserverImpl::next(&self)
ObserverImpl_next(k, value) ==
    /\ HandleStep(k)
    /\ handles[k].observer = 1
    /\ ActiveCall_respond(k, "N", value)
    /\ UNCHANGED handles

\* ObserverImpl::error(self)
ObserverImpl_error(k, error) ==
    /\ HandleStep(k)
    /\ handles[k].observer = 1
    /\ ActiveCall_respond(k, "Error", error)
    /\ Consume(k, "observer")

\* ObserverImpl::complete that also takes the call's controller out of
\* abort_controllers once the terminal response is sent.
ObserverImpl_complete_unregisters(k, notes) ==
    /\ host \in CgHosts
    /\ Step
    /\ k \in 1..Len(calls)
    /\ handles[k].observer = 1
    /\ ActiveCall_respond(k, "Complete", notes)
    /\ Consume(k, "observer")
    /\ abort_controllers' =
          [abort_controllers EXCEPT ![<<calls[k].reply_context, calls[k].request_id>>] =
              IF @ = calls[k].abort_controller THEN NoToken ELSE @]
    /\ UNCHANGED <<tokens, calls, mvp_rctxs, last>>

\* ObserverImpl::complete(self)
ObserverImpl_complete(k, notes) ==
    /\ HandleStep(k)
    /\ handles[k].observer = 1
    /\ ActiveCall_respond(k, "Complete", notes)
    /\ Consume(k, "observer")

\* into_parts stamping the Emitter with the clock at the time of the split.
ObserverImpl_into_parts_restamps(k) ==
    /\ HandleStep(k)
    /\ handles[k].observer = 1
    /\ handles' = [handles EXCEPT ![k] = [observer |-> 0, emitters |-> 1, completers |-> 1,
                                          current_time |-> Utc_now]]
    /\ UNCHANGED wire

\* ObserverImpl::into_parts(self): one Emitter and one Completer over Arc<Box>;
\* the Emitter takes the observer's current_time.
ObserverImpl_into_parts(k) ==
    /\ HandleStep(k)
    /\ handles[k].observer = 1
    /\ handles' = [handles EXCEPT ![k] = [observer |-> 0, emitters |-> 1, completers |-> 1,
                                          current_time |-> handles[k].current_time]]
    /\ UNCHANGED wire

\* Emitter::get_current_time (the observer's current_time before the split).
get_current_time(k) == handles[k].current_time

\* Emitter::next(&self)
Emitter_next(k, value) ==
    /\ HandleStep(k)
    /\ handles[k].emitters > 0
    /\ ActiveCall_respond(k, "N", value)
    /\ UNCHANGED handles

\* Emitter::check_aborted(&self): TRUE for Ok, FALSE for Err.
check_aborted(k) == ~is_aborted(get_abort_signal(k))

\* Completer::error(self)
Completer_error(k, error) ==
    /\ HandleStep(k)
    /\ handles[k].completers > 0
    /\ ActiveCall_respond(k, "Error", error)
    /\ Consume(k, "completers")

\* Completer::complete(self)
Completer_complete(k, notes) ==
    /\ HandleStep(k)
    /\ handles[k].completers > 0
    /\ ActiveCall_respond(k, "Complete", notes)
    /\ Consume(k, "completers")

\* #[derive(Clone)] on Emitter and on Completer.
Handle_clone(k, field) ==
    /\ HandleStep(k)
    /\ handles[k][field] > 0
    /\ handles' = [handles EXCEPT ![k][field] = @ + 1]
    /\ UNCHANGED wire

\* A handle going out of scope unused.
Handle_drop(k, field) ==
    /\ HandleStep(k)
    /\ handles[k][field] > 0
    /\ Consume(k, field)
    /\ UNCHANGED wire

\* ------------------------------------------------ pathfinder-core/src/lib.rs
\* Points are <<x, y>>; indices are 0-based as in the source, so index i of a
\* Vec is element i + 1 of the sequence.  f64 is narrowed to the whole numbers
\* up to F64Max and Infinity above them: a result beyond F64Max overflows to
\* Infinity, as an f64 beyond f64::MAX does.  The finite inputs used here have
\* integral edge lengths, for which ISqrt is exact.
Pt(x, y) == <<x, y>>
Edge(from, to) == [from |-> from, to |-> to]
At(vec, i) == vec[i + 1]
InBounds(vec, i) == i < Len(vec)

Infinity == F64Max + 1
f64(x) == IF x > F64Max THEN Infinity ELSE x

ISqrt(n) == CHOOSE r \in 0..n : r * r <= n /\ (r + 1) * (r + 1) > n

euclidean_distance(p1, p2) ==
    LET dx2 == f64((p2[1] - p1[1]) * (p2[1] - p1[1]))
        dy2 == f64((p2[2] - p1[2]) * (p2[2] - p1[2]))
        sum == f64(dx2 + dy2)
    IN  IF sum = Infinity THEN Infinity ELSE ISqrt(sum)

\* The weight given to an edge between nodes u and v by compute_shortest_path.
Weight(points, u, v) == euclidean_distance(At(points, u), At(points, v))

\* petgraph neighbors(a) of an undirected Graph: the edges leaving a, latest
\* added first, then the edges entering a, latest added first, self-loops
\* skipped in the second list.
RECURSIVE OutgoingFrom(_, _, _)
OutgoingFrom(edges, a, i) ==
    IF i = 0 THEN <<>>
    ELSE (IF edges[i].from = a THEN <<edges[i].to>> ELSE <<>>)
         \o OutgoingFrom(edges, a, i - 1)

RECURSIVE IncomingTo(_, _, _)
IncomingTo(edges, a, i) ==
    IF i = 0 THEN <<>>
    ELSE (IF edges[i].to = a /\ edges[i].from # a THEN <<edges[i].from>> ELSE <<>>)
         \o IncomingTo(edges, a, i - 1)

neighbors(edges, a) ==
    OutgoingFrom(edges, a, Len(edges)) \o IncomingTo(edges, a, Len(edges))

Range(seq) == {seq[i] : i \in DOMAIN seq}

\* petgraph dijkstra(graph, start, Some(goal), weight): the scores map when the
\* loop ends.  The heap orders entries by score alone, so nodes of equal score
\* pop in an order the source does not fix: every order is an outcome.
RECURSIVE dijkstra_from(_, _, _, _, _)
dijkstra_from(points, edges, goal, scores, visited) ==
    LET frontier == DOMAIN scores \ visited
        least == {u \in frontier : \A v \in frontier : scores[u] <= scores[v]}
        relax(node) ==
            LET reached == {v \in Range(neighbors(edges, node)) : v \notin visited}
            IN  [v \in DOMAIN scores \cup reached |->
                    IF v \in reached
                    THEN LET next_score == f64(scores[node] + Weight(points, node, v))
                         IN  IF v \in DOMAIN scores /\ scores[v] <= next_score
                             THEN scores[v]
                             ELSE next_score
                    ELSE scores[v]]
    IN  IF frontier = {} THEN {scores}
        ELSE UNION { IF node = goal THEN {scores}
                     ELSE dijkstra_from(points, edges, goal, relax(node),
                                        visited \cup {node}) : node \in least }

dijkstra(points, edges, start, goal) ==
    dijkstra_from(points, edges, goal, [n \in {start} |-> 0], {})

\* The closure accepting every neighbour that has a distance, whatever the
\* weight of the edge.
fits_any_scored(points, distances, current, neighbor) ==
    neighbor \in DOMAIN distances

\* The closure given to find() in reconstruct_path.  With an infinite
\* current_dist the difference is NaN and the test fails.
fits(points, distances, current, neighbor) ==
    /\ neighbor \in DOMAIN distances
    /\ distances[current] # Infinity
    /\ f64(distances[neighbor] + Weight(points, neighbor, current)) = distances[current]

\* Iterator::find over the neighbours from position i on: the first that fits,
\* or -1 for None.
RECURSIVE find(_, _, _, _, _)
find(points, distances, current, nbrs, i) ==
    IF i > Len(nbrs) THEN -1
    ELSE IF fits(points, distances, current, nbrs[i]) THEN nbrs[i]
    ELSE find(points, distances, current, nbrs, i + 1)

\* reconstruct_path: walk back from `end`, taking at each node the first
\* neighbour whose distance plus the edge weight equals the node's distance.
\* The step taken depends on the current node alone, so a walk that comes back
\* to a node it has left never ends ("diverges"); a node with no such
\* neighbour is the expect() failure ("panic").
RECURSIVE reconstruct_from(_, _, _, _, _, _, _)
reconstruct_from(points, edges, distances, start, current, path, seen) ==
    IF current = start THEN [kind |-> "Ok", path |-> path]
    ELSE IF current \in seen THEN [kind |-> "diverges", path |-> <<>>]
    ELSE
        LET prev == find(points, distances, current, neighbors(edges, current), 1)
        IN  IF prev = -1 THEN [kind |-> "panic", path |-> <<>>]
            ELSE reconstruct_from(points, edges, distances, start, prev,
                                  <<prev>> \o path, seen \cup {current})

reconstruct_path(points, edges, distances, start, end) ==
    reconstruct_from(points, edges, distances, start, end, <<end>>, {})

\* compute_shortest_path: every result the call can have.  "panic" is an index
\* out of bounds (points[edge.from], nodes[start_idx], ...) or the expect() of
\* reconstruct_path; "diverges" is a call that never returns.
compute_shortest_path(points, edges, start_idx, end_idx) ==
    IF \/ \E i \in DOMAIN edges :
              ~InBounds(points, edges[i].from) \/ ~InBounds(points, edges[i].to)
       \/ ~InBounds(points, start_idx)
       \/ ~InBounds(points, end_idx)
    THEN {[kind |-> "panic"]}
    ELSE { IF end_idx \in DOMAIN result
           THEN LET walk == reconstruct_path(points, edges, result, start_idx, end_idx)
                IN  IF walk.kind = "Ok"
                    THEN [kind |-> "Ok",
                          value |-> [path |-> walk.path, distance |-> result[end_idx]]]
                    ELSE [kind |-> walk.kind]
           ELSE [kind |-> "Err", error |-> "No path found"]
           : result \in dijkstra(points, edges, start_idx, end_idx) }

\* -------------------------------------------- shared-types/src/storage.rs
\* The handler's Option<Arc<S>>: None, or Some of a NoStorage or of an
\* InMemoryStorage with its HashMap.
None_storage == [kind |-> "None"]
NoStorage == [kind |-> "NoStorage"]
InMemoryStorage_new == [kind |-> "InMemoryStorage", data |-> <<>>]

\* Storage::get, for both implementations.
Storage_get(storage, key) ==
    IF storage.kind = "InMemoryStorage" /\ key \in DOMAIN storage.data
    THEN [some |-> TRUE, bytes |-> storage.data[key]]
    ELSE [some |-> FALSE]

\* Storage::set, for both implementations.
Storage_set(storage, key, value) ==
    IF storage.kind = "InMemoryStorage"
    THEN [storage EXCEPT !.data =
             [k \in DOMAIN storage.data \cup {key} |->
                 IF k = key THEN value ELSE storage.data[k]]]
    ELSE storage

\* Storage::delete, for both implementations.
Storage_delete(storage, key) ==
    IF storage.kind = "InMemoryStorage"
    THEN [storage EXCEPT !.data = [k \in DOMAIN storage.data \ {key} |-> storage.data[k]]]
    ELSE storage

\* serde_json::to_vec(&PathResult) and serde_json::from_slice::<PathResult>.
to_vec(result) == [json |-> "PathResult", path |-> result.path, distance |-> result.distance]
from_slice(bytes) ==
    IF bytes.json = "PathResult"
    THEN [ok |-> TRUE, value |-> [path |-> bytes.path, distance |-> bytes.distance]]
    ELSE [ok |-> FALSE]

\* ------------------------------------------ shared-types/src/router/mod.rs
\* ObserverImpl::new(request_id, sender)
shared_ObserverImpl_new(request_id) == [request_id |-> request_id]

\* ToResponseNextGen: the value boxed under its operation's variant.
to_response_next_gen(variant, value) == [variant |-> variant, value |-> value]

\* ObserverImpl::next / error / complete (shared-types): the WireResponse each
\* hands to sender.send_response.
shared_ObserverImpl_next(tx, variant, value) ==
    WireResponse(tx.request_id, "N", to_response_next_gen(variant, value))
\* ObserverImpl::error reporting its failure as ResponseEnum::Aborted.
shared_ObserverImpl_error_as_aborted(tx, error) ==
    WireResponse(tx.request_id, "Aborted", error)
shared_ObserverImpl_error(tx, error) ==
    WireResponse(tx.request_id, "Error", error)
shared_ObserverImpl_complete(tx, notes) ==
    WireResponse(tx.request_id, "Complete", notes)

\* ObserverImpl::into_parts (shared-types): takes the sender out of self and
\* panics ("into_parts not yet supported"); no Emitter or Completer is made.
shared_ObserverImpl_into_parts(tx) == [kind |-> "panic"]

\* --------------------------------------------- shared-types/src/context.rs
Context_new(session_id, request_id) ==
    [session_id |-> session_id, request_id |-> request_id, user_id |-> "None"]

\* ------------------------------------------ pathfinder-core/src/handler.rs
\* What one handler invocation does: the responses it sends through tx, in
\* order, the storage it leaves, and how it ends ("returns", "panics",
\* "diverges").  A set: one element per result compute_shortest_path can have.
cache_key(ctx, params) ==
    <<"path", ctx.session_id, params.start_idx, params.end_idx>>

find_shortest_path(ctx, params, tx, storage) ==
    LET cached == IF storage.kind = "None" THEN [some |-> FALSE]
                  ELSE Storage_get(storage, cache_key(ctx, params))
        hit == cached.some /\ from_slice(cached.bytes).ok
    IN  IF hit
        THEN {[sent |-> <<shared_ObserverImpl_next(tx, "find_shortest_path",
                                                   from_slice(cached.bytes).value),
                          shared_ObserverImpl_complete(tx, "Path found (cached)")>>,
               storage |-> storage,
               fate |-> "returns"]}
        ELSE { CASE r.kind = "Ok" ->
                      [sent |-> <<shared_ObserverImpl_next(tx, "find_shortest_path", r.value),
                                  shared_ObserverImpl_complete(tx, "Path found successfully")>>,
                       storage |-> IF storage.kind = "None" THEN storage
                                   ELSE Storage_set(storage, cache_key(ctx, params),
                                                    to_vec(r.value)),
                       fate |-> "returns"]
                 [] r.kind = "Err" ->
                      [sent |-> <<shared_ObserverImpl_error(tx, r.error)>>,
                       storage |-> storage,
                       fate |-> "returns"]
                 [] r.kind = "panic" ->
                      [sent |-> <<>>, storage |-> storage, fate |-> "panics"]
                 [] r.kind = "diverges" ->
                      [sent |-> <<>>, storage |-> storage, fate |-> "diverges"]
               : r \in compute_shortest_path(params.points, params.edges,
                                             params.start_idx, params.end_idx) }

RECURSIVE total_length(_, _, _)
total_length(points, edges, i) ==
    IF i = 0 THEN 0
    ELSE f64(total_length(points, edges, i - 1)
             + Weight(points, edges[i].from, edges[i].to))

\* avg_edge_length is total / count in f64: here the quotient in whole numbers,
\* Infinity for an infinite total.
compute_graph_metrics(ctx, params, tx, storage) ==
    IF \E i \in DOMAIN params.edges :
          \/ ~InBounds(params.points, params.edges[i].from)
          \/ ~InBounds(params.points, params.edges[i].to)
    THEN {[sent |-> <<>>, storage |-> storage, fate |-> "panics"]}
    ELSE LET node_count == Len(params.points)
             edge_count == Len(params.edges)
             total_edge_length == total_length(params.points, params.edges, edge_count)
             avg_edge_length == IF edge_count = 0 THEN 0
                                ELSE IF total_edge_length = Infinity THEN Infinity
                                ELSE total_edge_length \div edge_count
             metrics == [node_count |-> node_count, edge_count |-> edge_count,
                         total_edge_length |-> total_edge_length,
                         avg_edge_length |-> avg_edge_length]
         IN  {[sent |-> <<shared_ObserverImpl_next(tx, "compute_graph_metrics", metrics),
                          shared_ObserverImpl_complete(tx, "Metrics computed successfully")>>,
               storage |-> storage,
               fate |-> "returns"]}

\* ------------------------------------- shared-types/src/router/router_gen.rs
\* gen_call: the handler method matching the CallGen variant, with the call's
\* params and an ObserverImpl bound to id.  Gives the invocation made and what
\* the invocation does.
Invocation(method, ctx, params, tx) ==
    [method |-> method, ctx |-> ctx, params |-> params, tx |-> tx]

\* gen_call building every sink with ObserverImpl::new(0, sender).
shared_gen_call_unbound_sink(ctx, id, call, storage) ==
    CASE call.variant = "find_shortest_path" ->
           [invoked |-> Invocation("find_shortest_path", ctx, call.params,
                                   shared_ObserverImpl_new(0)),
            outcomes |-> find_shortest_path(ctx, call.params,
                                            shared_ObserverImpl_new(0), storage)]
      [] call.variant = "compute_graph_metrics" ->
           [invoked |-> Invocation("compute_graph_metrics", ctx, call.params,
                                   shared_ObserverImpl_new(0)),
            outcomes |-> compute_graph_metrics(ctx, call.params,
                                               shared_ObserverImpl_new(0), storage)]

shared_gen_call(ctx, id, call, storage) ==
    CASE call.variant = "find_shortest_path" ->
           [invoked |-> Invocation("find_shortest_path", ctx, call.params,
                                   shared_ObserverImpl_new(id)),
            outcomes |-> find_shortest_path(ctx, call.params,
                                            shared_ObserverImpl_new(id), storage)]
      [] call.variant = "compute_graph_metrics" ->
           [invoked |-> Invocation("compute_graph_metrics", ctx, call.params,
                                   shared_ObserverImpl_new(id)),
            outcomes |-> compute_graph_metrics(ctx, call.params,
                                               shared_ObserverImpl_new(id), storage)]

\* handle_request with an Abort arm that sends nothing.
handle_request_abort_silent(request, ctx, storage) ==
    IF request.op = "Abort"
    THEN [invoked |-> <<>>,
          outcomes |-> {[sent |-> <<>>, storage |-> storage, fate |-> "returns"]}]
    ELSE LET g == shared_gen_call(ctx, request.id, request.call, storage)
         IN  [invoked |-> <<g.invoked>>, outcomes |-> g.outcomes]

\* router::handle_request: what the request makes of handler invocations and
\* of responses.  Abort answers Aborted(reason) itself; Call goes to gen_call.
handle_request(request, ctx, storage) ==
    IF request.op = "Abort"
    THEN [invoked |-> <<>>,
          outcomes |-> {[sent |-> <<WireResponse(request.id, "Aborted", request.reason)>>,
                         storage |-> storage,
                         fate |-> "returns"]}]
    ELSE LET g == shared_gen_call(ctx, request.id, request.call, storage)
         IN  [invoked |-> <<g.invoked>>, outcomes |-> g.outcomes]

\* ------------------------------------------ shared-types/src/receiver.rs
\* Receiver::new(session_id, handler, storage).  A PathfinderHandler is its
\* one field, the storage it holds.
Receiver_new(session_id, handler, storage) ==
    [session_id |-> session_id, handler |-> handler, storage |-> storage]

\* Receiver::handle_request making every Context with request id 0.
Receiver_handle_request_id_zero(session_id, request, storage) ==
    handle_request(request, Context_new(session_id, 0), storage)

\* Receiver::handle_request: the request's own id goes into the Context.
Receiver_handle_request(session_id, request, storage) ==
    LET request_id == request.id
        ctx == Context_new(session_id, request_id)
    IN  handle_request(request, ctx, storage)

\* ----------------------------------------------------- the wire encoding
\* JSON values: a number, a string, an array, an object (a record of values),
\* and text that is not JSON at all.  Numbers are the integers of the model.
JNum(n) == [num |-> n]
JStr(text) == [str |-> text]
JArr(items) == [arr |-> items]
JObj(fields) == [obj |-> fields]
JNull == [null |-> TRUE]
Garbage == [garbage |-> "{"]

Ok(value) == [ok |-> TRUE, value |-> value]
Err == [ok |-> FALSE]

\* serde's derived Serialize of the protocol types.  serde_json writes an f64
\* that is not finite as null.
ser_f64(x) == IF x = Infinity THEN JNull ELSE JNum(x)
ser_Point(p) == JObj([x |-> ser_f64(p[1]), y |-> ser_f64(p[2])])
ser_Edge(e) == JObj([from |-> JNum(e.from), to |-> JNum(e.to)])
ser_ShortestPathParams(p) ==
    JObj([points |-> JArr([i \in DOMAIN p.points |-> ser_Point(p.points[i])]),
          edges |-> JArr([i \in DOMAIN p.edges |-> ser_Edge(p.edges[i])]),
          start_idx |-> JNum(p.start_idx),
          end_idx |-> JNum(p.end_idx)])
ser_GraphMetricsParams(p) ==
    JObj([points |-> JArr([i \in DOMAIN p.points |-> ser_Point(p.points[i])]),
          edges |-> JArr([i \in DOMAIN p.edges |-> ser_Edge(p.edges[i])])])
ser_CallGen(call) ==
    IF call.variant = "find_shortest_path"
    THEN JObj([find_shortest_path |-> ser_ShortestPathParams(call.params)])
    ELSE JObj([compute_graph_metrics |-> ser_GraphMetricsParams(call.params)])
ser_RequestEnum(request) ==
    IF request.op = "Abort"
    THEN JObj([Abort |-> JArr(<<JNum(request.id), JStr(request.reason)>>)])
    ELSE JObj([Call |-> JArr(<<JNum(request.id), ser_CallGen(request.call)>>)])

ser_PathResult(result) ==
    JObj([path |-> JArr([i \in DOMAIN result.path |-> JNum(result.path[i])]),
          distance |-> ser_f64(result.distance)])
ser_GraphMetrics(metrics) ==
    JObj([node_count |-> JNum(metrics.node_count),
          edge_count |-> JNum(metrics.edge_count),
          total_edge_length |-> ser_f64(metrics.total_edge_length),
          avg_edge_length |-> ser_f64(metrics.avg_edge_length)])
ser_ResponseNextGen(next) ==
    IF next.variant = "find_shortest_path"
    THEN JObj([find_shortest_path |-> ser_PathResult(next.value)])
    ELSE JObj([compute_graph_metrics |-> ser_GraphMetrics(next.value)])
ser_ResponseEnum(response) ==
    CASE response.kind = "Aborted" -> JObj([Aborted |-> JStr(response.value)])
      [] response.kind = "Error" -> JObj([Error |-> JStr(response.value)])
      [] response.kind = "Complete" -> JObj([Complete |-> JStr(response.value)])
      [] response.kind = "N" -> JObj([N |-> ser_ResponseNextGen(response.value)])
ser_WireResponse(response) ==
    JArr(<<JNum(response.id), ser_ResponseEnum(response)>>)

\* serde's derived Deserialize.  A struct needs each of its fields and ignores
\* others; an enum is an object with its variant's name as only key; a tuple
\* variant or tuple struct is an array of exactly its arity.  (A struct written as
\* an array of its fields, which serde_json also takes, is not among the
\* messages of the model.)
IsNum(j) == DOMAIN j = {"num"}
IsStr(j) == DOMAIN j = {"str"}
IsArr(j) == DOMAIN j = {"arr"}
IsObj(j) == DOMAIN j = {"obj"}
HasFields(j, names) == IsObj(j) /\ names \subseteq DOMAIN j.obj
IsVariant(j, name) == IsObj(j) /\ DOMAIN j.obj = {name}
IsTuple(j, arity) == IsArr(j) /\ Len(j.arr) = arity

de_usize(j) == IF IsNum(j) /\ j.num >= 0 THEN Ok(j.num) ELSE Err
de_f64(j) == IF IsNum(j) THEN Ok(j.num) ELSE Err
de_String(j) == IF IsStr(j) THEN Ok(j.str) ELSE Err
de_Point(j) ==
    IF HasFields(j, {"x", "y"}) /\ de_f64(j.obj.x).ok /\ de_f64(j.obj.y).ok
    THEN Ok(Pt(de_f64(j.obj.x).value, de_f64(j.obj.y).value))
    ELSE Err
de_Edge(j) ==
    IF HasFields(j, {"from", "to"}) /\ de_usize(j.obj.from).ok /\ de_usize(j.obj.to).ok
    THEN Ok(Edge(de_usize(j.obj.from).value, de_usize(j.obj.to).value))
    ELSE Err
de_Points(j) ==
    IF IsArr(j) /\ \A i \in DOMAIN j.arr : de_Point(j.arr[i]).ok
    THEN Ok([i \in DOMAIN j.arr |-> de_Point(j.arr[i]).value])
    ELSE Err
de_Edges(j) ==
    IF IsArr(j) /\ \A i \in DOMAIN j.arr : de_Edge(j.arr[i]).ok
    THEN Ok([i \in DOMAIN j.arr |-> de_Edge(j.arr[i]).value])
    ELSE Err
de_ShortestPathParams(j) ==
    IF /\ HasFields(j, {"points", "edges", "start_idx", "end_idx"})
       /\ de_Points(j.obj.points).ok /\ de_Edges(j.obj.edges).ok
       /\ de_usize(j.obj.start_idx).ok /\ de_usize(j.obj.end_idx).ok
    THEN Ok([points |-> de_Points(j.obj.points).value,
             edges |-> de_Edges(j.obj.edges).value,
             start_idx |-> de_usize(j.obj.start_idx).value,
             end_idx |-> de_usize(j.obj.end_idx).value])
    ELSE Err
de_GraphMetricsParams(j) ==
    IF /\ HasFields(j, {"points", "edges"})
       /\ de_Points(j.obj.points).ok /\ de_Edges(j.obj.edges).ok
    THEN Ok([points |-> de_Points(j.obj.points).value,
             edges |-> de_Edges(j.obj.edges).value])
    ELSE Err
de_CallGen(j) ==
    IF IsVariant(j, "find_shortest_path")
          /\ de_ShortestPathParams(j.obj.find_shortest_path).ok
    THEN Ok([variant |-> "find_shortest_path",
             params |-> de_ShortestPathParams(j.obj.find_shortest_path).value])
    ELSE IF IsVariant(j, "compute_graph_metrics")
          /\ de_GraphMetricsParams(j.obj.compute_graph_metrics).ok
    THEN Ok([variant |-> "compute_graph_metrics",
             params |-> de_GraphMetricsParams(j.obj.compute_graph_metrics).value])
    ELSE Err

\* A RequestEnum decoder that lets the reason of an Abort be left out.
de_RequestEnum_reason_optional(j) ==
    IF IsVariant(j, "Abort") /\ IsArr(j.obj.Abort) /\ Len(j.obj.Abort.arr) >= 1
          /\ de_usize(j.obj.Abort.arr[1]).ok
    THEN Ok([op |-> "Abort", id |-> de_usize(j.obj.Abort.arr[1]).value,
             reason |-> "cancel"])
    ELSE IF IsVariant(j, "Call") /\ IsTuple(j.obj.Call, 2)
          /\ de_usize(j.obj.Call.arr[1]).ok /\ de_CallGen(j.obj.Call.arr[2]).ok
    THEN Ok([op |-> "Call", id |-> de_usize(j.obj.Call.arr[1]).value,
             call |-> de_CallGen(j.obj.Call.arr[2]).value])
    ELSE Err

de_RequestEnum(j) ==
    IF IsVariant(j, "Abort") /\ IsTuple(j.obj.Abort, 2)
          /\ de_usize(j.obj.Abort.arr[1]).ok /\ de_String(j.obj.Abort.arr[2]).ok
    THEN Ok([op |-> "Abort", id |-> de_usize(j.obj.Abort.arr[1]).value,
             reason |-> de_String(j.obj.Abort.arr[2]).value])
    ELSE IF IsVariant(j, "Call") /\ IsTuple(j.obj.Call, 2)
          /\ de_usize(j.obj.Call.arr[1]).ok /\ de_CallGen(j.obj.Call.arr[2]).ok
    THEN Ok([op |-> "Call", id |-> de_usize(j.obj.Call.arr[1]).value,
             call |-> de_CallGen(j.obj.Call.arr[2]).value])
    ELSE Err

\* Request is #[serde(transparent)] over RequestEnum.
de_Request(j) == de_RequestEnum(j)

de_Path(j) ==
    IF IsArr(j) /\ \A i \in DOMAIN j.arr : de_usize(j.arr[i]).ok
    THEN Ok([i \in DOMAIN j.arr |-> de_usize(j.arr[i]).value])
    ELSE Err
de_PathResult(j) ==
    IF HasFields(j, {"path", "distance"})
          /\ de_Path(j.obj.path).ok /\ de_f64(j.obj.distance).ok
    THEN Ok([path |-> de_Path(j.obj.path).value,
             distance |-> de_f64(j.obj.distance).value])
    ELSE Err
de_GraphMetrics(j) ==
    IF /\ HasFields(j, {"node_count", "edge_count", "total_edge_length", "avg_edge_length"})
       /\ de_usize(j.obj.node_count).ok /\ de_usize(j.obj.edge_count).ok
       /\ de_f64(j.obj.total_edge_length).ok /\ de_f64(j.obj.avg_edge_length).ok
    THEN Ok([node_count |-> de_usize(j.obj.node_count).value,
             edge_count |-> de_usize(j.obj.edge_count).value,
             total_edge_length |-> de_f64(j.obj.total_edge_length).value,
             avg_edge_length |-> de_f64(j.obj.avg_edge_length).value])
    ELSE Err
de_ResponseNextGen(j) ==
    IF IsVariant(j, "find_shortest_path") /\ de_PathResult(j.obj.find_shortest_path).ok
    THEN Ok(to_response_next_gen("find_shortest_path",
                                 de_PathResult(j.obj.find_shortest_path).value))
    ELSE IF IsVariant(j, "compute_graph_metrics")
          /\ de_GraphMetrics(j.obj.compute_graph_metrics).ok
    THEN Ok(to_response_next_gen("compute_graph_metrics",
                                 de_GraphMetrics(j.obj.compute_graph_metrics).value))
    ELSE Err
\* ResponseEnum decoded into the (kind, value) of a WireResponse for `id`.
de_ResponseEnum(id, j) ==
    IF IsVariant(j, "Aborted") /\ de_String(j.obj.Aborted).ok
    THEN Ok(WireResponse(id, "Aborted", de_String(j.obj.Aborted).value))
    ELSE IF IsVariant(j, "Error") /\ de_String(j.obj.Error).ok
    THEN Ok(WireResponse(id, "Error", de_String(j.obj.Error).value))
    ELSE IF IsVariant(j, "Complete") /\ de_String(j.obj.Complete).ok
    THEN Ok(WireResponse(id, "Complete", de_String(j.obj.Complete).value))
    ELSE IF IsVariant(j, "N") /\ de_ResponseNextGen(j.obj.N).ok
    THEN Ok(WireResponse(id, "N", de_ResponseNextGen(j.obj.N).value))
    ELSE Err
de_WireResponse(j) ==
    IF IsTuple(j, 2) /\ de_usize(j.arr[1]).ok
    THEN de_ResponseEnum(de_usize(j.arr[1]).value, j.arr[2])
    ELSE Err

\* What a peer can send: every request of the model encoded, and messages
\* that are not a Request.
Malformed ==
    { Garbage,
      JStr("Call"),
      JArr(<<JNum(1), JStr("cancel")>>),
      JObj([Abort |-> JArr(<<JNum(1)>>)]),
      JObj([Abort |-> JArr(<<JNum(-1), JStr("cancel")>>)]),
      JObj([Abort |-> JArr(<<JStr("1"), JStr("cancel")>>)]),
      JObj([Cancel |-> JArr(<<JNum(1), JStr("cancel")>>)]),
      JObj([Call |-> JArr(<<JNum(1), JObj([shortest_path |-> JObj([points |-> JArr(<<>>)])])>>)]),
      JObj([Call |-> JArr(<<JNum(2), JObj([compute_graph_metrics |-> JObj([points |-> JArr(<<>>)])])>>)]),
      JObj([Call |-> JArr(<<JNum(2), JObj([compute_graph_metrics |->
               JObj([points |-> JArr(<<JStr("0,0")>>), edges |-> JArr(<<>>)])])>>)]) }
Messages == {ser_RequestEnum(request) : request \in Requests} \cup Malformed

\* ------------------------------------------------------------ the two hosts
\* src-rust send_request: a new handler over a new InMemoryStorage and a new
\* Receiver for every request; WasmTransport calls the callback at once.
\* pathfinder-server handle_connection: one Receiver per connection, a handler
\* without storage; WebSocketSender spawns one task per response.
SessionId == IF host = "wasm" THEN "wasm-session" ELSE "ws-127.0.0.1:50000"
HandlerStorage == IF host = "wasm" THEN InMemoryStorage_new ELSE None_storage

\* WireResponseSender::send_response for each response of `sends`, in order.
send_responses(sends) ==
    LET new == (Len(sent) + 1)..(Len(sent) + Len(sends))
    IN  /\ sent' = sent \o sends
        /\ IF host = "wasm"
           THEN /\ frames' = frames \o [i \in 1..Len(sends) |-> Len(sent) + i]
                /\ UNCHANGED ws_tasks
           ELSE /\ ws_tasks' = ws_tasks \cup new
                /\ UNCHANGED frames

\* One request decoded and given to the receiver, the handler run to its end.
Serve(request) ==
    /\ host \in {"wasm", "websocket"}
    /\ fate = "returns"
    /\ steps < MaxRequests
    /\ steps' = steps + 1
    /\ LET h == Receiver_handle_request(SessionId, request, HandlerStorage)
       IN  \E outcome \in h.outcomes :
              /\ invoked' = h.invoked
              /\ send_responses(outcome.sent)
              /\ fate' = IF host = "wasm" /\ outcome.fate = "panics"
                         THEN "returns"
                         ELSE outcome.fate
              /\ returned' = IF host # "wasm" THEN returned
                             ELSE CASE outcome.fate = "returns" -> "Ok"
                                    [] outcome.fate = "panics" -> "trap"
                                    [] outcome.fate = "diverges" -> "none"
    /\ UNCHANGED stderr
    /\ UNCHANGED <<env, cg_vars>>

\* A message that does not decode: src-rust send_request returns the error to
\* its caller; handle_connection logs it and reads the next message.
Reject ==
    /\ host \in {"wasm", "websocket"}
    /\ fate = "returns"
    /\ steps < MaxRequests
    /\ steps' = steps + 1
    /\ invoked' = <<>>
    /\ returned' = IF host = "wasm" THEN "Err" ELSE returned
    /\ stderr' = IF host = "websocket" THEN stderr + 1 ELSE stderr
    /\ UNCHANGED <<env, cg_vars, sent, ws_tasks, frames, fate>>

\* One message taken from the peer: serde_wasm_bindgen::from_value in
\* send_request, serde_json::from_str in handle_connection.
Receive(message) ==
    /\ host \in {"wasm", "websocket"}
    /\ fate = "returns"
    /\ steps < MaxRequests
    /\ LET decoded == de_Request(message)
       IN  IF decoded.ok THEN Serve(decoded.value) ELSE Reject

\* The task spawned by WebSocketSender::send_response for response i: it
\* serialises the response, takes the sink's lock and writes the frame.
WebSocketSender_task(i) ==
    /\ host = "websocket"
    /\ i \in ws_tasks
    /\ ws_tasks' = ws_tasks \ {i}
    /\ frames' = Append(frames, i)
    /\ UNCHANGED <<env, steps, cg_vars, sent, invoked, fate, returned, stderr>>

\* ---------------------------------------------------------------- the system
\* Routers, sessions and transports as constructed, nothing dispatched yet.
Idle ==
    /\ steps = 0
    /\ tokens = <<>>
    /\ calls = <<>>
    /\ handles = <<>>
    /\ abort_controllers = [key \in Keys |-> NoToken]
    /\ mvp_rctxs = [id \in RequestIds |-> NoCall]
    /\ wire = <<>>
    /\ last = [op |-> "none", rctx |-> "none", id |-> 0]
    /\ sent = <<>>
    /\ invoked = <<>>
    /\ ws_tasks = {}
    /\ frames = <<>>
    /\ fate = "returns"
    /\ returned = "none"
    /\ stderr = 0

Init ==
    /\ host \in {"cg_types", "wasm", "websocket"}
    /\ probe = NoProbe
    /\ Idle

Next ==
    \/ \E id \in RequestIds, op \in CgOps, c \in RCtx : send_request_Call(id, op, c)
    \/ \E id \in RequestIds, r \in AbortReasons, c \in RCtx : send_request_Abort(id, r, c)
    \/ \E id \in RequestIds, c \in RCtx, e \in ErrorTexts : send_error(id, c, e)
    \/ \E k \in 1..Len(calls), v \in NextValues : ObserverImpl_next(k, v)
    \/ \E k \in 1..Len(calls), e \in ErrorTexts : ObserverImpl_error(k, e)
    \/ \E k \in 1..Len(calls), n \in CompleteNotes : ObserverImpl_complete(k, n)
    \/ \E k \in 1..Len(calls) : ObserverImpl_into_parts(k)
    \/ \E k \in 1..Len(calls), v \in NextValues : Emitter_next(k, v)
    \/ \E k \in 1..Len(calls), e \in ErrorTexts : Completer_error(k, e)
    \/ \E k \in 1..Len(calls), n \in CompleteNotes : Completer_complete(k, n)
    \/ \E k \in 1..Len(calls), f \in {"emitters", "completers"} : Handle_clone(k, f)
    \/ \E k \in 1..Len(calls), f \in {"observer", "emitters", "completers"} : Handle_drop(k, f)
    \/ \E message \in Messages : Receive(message)
    \/ \E i \in 1..Len(sent) : WebSocketSender_task(i)

Spec == Init /\ [][Next]_vars

\* ------------------------------- compute_shortest_path under direct call
\* Edges in one input graph.
MaxEdges == 3

\* Three points: a 3-4-5 triangle, two coincident points, three collinear
\* points.  Every pairwise distance is integral.
Layouts == { <<Pt(0, 0), Pt(3, 0), Pt(0, 4)>>,
             <<Pt(0, 0), Pt(3, 0), Pt(3, 0)>>,
             <<Pt(0, 0), Pt(3, 0), Pt(6, 0)>> }
NodeIds == 0..2
EdgeLists == UNION {[1..n -> [from : NodeIds, to : NodeIds]] : n \in 0..MaxEdges}

PathInit ==
    /\ host = "pathfinder_core"
    /\ Idle
    /\ probe \in {[kind |-> "compute_shortest_path",
                   points |-> points, edges |-> edges,
                   start_idx |-> start_idx, end_idx |-> end_idx,
                   result |-> [kind |-> "pending"]] :
                  points \in Layouts, edges \in EdgeLists,
                  start_idx \in NodeIds, end_idx \in NodeIds}

compute_shortest_path_call ==
    /\ probe.kind = "compute_shortest_path"
    /\ probe.result.kind = "pending"
    /\ \E r \in compute_shortest_path(probe.points, probe.edges,
                                      probe.start_idx, probe.end_idx) :
          probe' = [probe EXCEPT !.result = r]
    /\ UNCHANGED <<host, steps, cg_vars, shared_vars>>

PathNext == compute_shortest_path_call

PathSpec == PathInit /\ [][PathNext]_vars

\* ------------------------------------------- a Storage under direct call
\* Operations made on one storage in one run.
MaxStorageOps == 4
StorageKeys == {"a", "b"}
StorageBytes == {"x", "y"}

\* probe.cells are the storages allocated (for InMemoryStorage the HashMap
\* behind the Arc), probe.handles the storage values in the caller's hands,
\* each naming its cell; probe.log is what was asked of them, in order.
StorageInit ==
    /\ host = "storage"
    /\ Idle
    /\ probe \in {[kind |-> "storage", cells |-> <<storage>>, handles |-> <<1>>,
                   log |-> <<>>, got |-> [some |-> FALSE]] :
                  storage \in {InMemoryStorage_new, NoStorage}}

StorageOp(h) ==
    /\ probe.kind = "storage"
    /\ h \in DOMAIN probe.handles
    /\ Len(probe.log) < MaxStorageOps
    /\ UNCHANGED <<host, steps, cg_vars, shared_vars>>

Logged(op, h, key) == Append(probe.log, [op |-> op, via |-> h, key |-> key])

\* #[derive(Clone)] giving every clone a HashMap of its own (a copy).
Call_clone_deep(h) ==
    /\ StorageOp(h)
    /\ probe' = [probe EXCEPT
                    !.cells = Append(@, probe.cells[probe.handles[h]]),
                    !.handles = Append(@, Len(probe.cells) + 1),
                    !.log = Logged("clone", h, "")]

\* #[derive(Clone)] on InMemoryStorage (Arc::clone: the same HashMap) and
\* #[derive(Clone, Copy)] on NoStorage.
Call_clone(h) ==
    /\ StorageOp(h)
    /\ probe' = [probe EXCEPT
                    !.handles = Append(@, probe.handles[h]),
                    !.log = Logged("clone", h, "")]

Call_set(h, key, value) ==
    /\ StorageOp(h)
    /\ probe' = [probe EXCEPT
                    !.cells[probe.handles[h]] = Storage_set(@, key, value),
                    !.log = Append(@, [op |-> "set", via |-> h, key |-> key, value |-> value])]

Call_delete(h, key) ==
    /\ StorageOp(h)
    /\ probe' = [probe EXCEPT
                    !.cells[probe.handles[h]] = Storage_delete(@, key),
                    !.log = Logged("delete", h, key)]

Call_get(h, key) ==
    /\ StorageOp(h)
    /\ probe' = [probe EXCEPT
                    !.got = Storage_get(probe.cells[probe.handles[h]], key),
                    !.log = Logged("get", h, key)]

StorageNext ==
    \/ \E h \in 1..MaxStorageOps : Call_clone(h)
    \/ \E h \in 1..MaxStorageOps, key \in StorageKeys, value \in StorageBytes :
          Call_set(h, key, value)
    \/ \E h \in 1..MaxStorageOps, key \in StorageKeys : Call_delete(h, key)
    \/ \E h \in 1..MaxStorageOps, key \in StorageKeys : Call_get(h, key)

StorageSpec == StorageInit /\ [][StorageNext]_vars

\* ----------------------------- one PathfinderHandler with storage, called
\* Calls made on the handler in one run.
MaxHandlerCalls == 3

\* The graphs of the model, asked for every pair of a start among the first
\* two points and an end among the last two.
CacheParams ==
    {[points |-> g.points, edges |-> g.edges, start_idx |-> a, end_idx |-> b] :
        g \in Graphs, a \in {0, 1}, b \in {1, 2}}

\* PathfinderHandler::new(Some(Arc::new(InMemoryStorage::new()))), as in
\* src-rust, but kept for a sequence of calls of one session.
HandlerInit ==
    /\ host = "handler"
    /\ Idle
    /\ probe = [kind |-> "handler", storage |-> InMemoryStorage_new, made |-> 0,
                sent |-> <<>>, fate |-> "returns", reference |-> {}]

\* handler.find_shortest_path(&ctx, params, tx).  probe.reference is what the
\* same call gives on PathfinderHandler::new(None).
Call_find_shortest_path(id, params) ==
    /\ probe.kind = "handler"
    /\ probe.fate = "returns"
    /\ probe.made < MaxHandlerCalls
    /\ LET ctx == Context_new("test-session", id)
           tx == shared_ObserverImpl_new(id)
       IN  \E outcome \in find_shortest_path(ctx, params, tx, probe.storage) :
              probe' = [kind |-> "handler",
                        storage |-> outcome.storage,
                        made |-> probe.made + 1,
                        sent |-> outcome.sent,
                        fate |-> outcome.fate,
                        reference |-> {[sent |-> r.sent, fate |-> r.fate] :
                            r \in find_shortest_path(ctx, params, tx, None_storage)}]
    /\ UNCHANGED <<host, steps, cg_vars, shared_vars>>

HandlerNext == \E id \in RequestIds, params \in CacheParams : Call_find_shortest_path(id, params)

HandlerSpec == HandlerInit /\ [][HandlerNext]_vars

\* ------------------------------------------ the wire encoding, round trip
\* The requests of the model and Calls for the other start/end pairs.
CodecRequests ==
    Requests
    \cup {[op |-> "Call", id |-> id,
           call |-> [variant |-> "find_shortest_path", params |-> params]] :
          id \in RequestIds, params \in CacheParams}

\* Every response the shared-types router sends for a request of the model,
\* on a handler without storage and on one that finds its answer cached.
WireResponses ==
    UNION { UNION { Range(outcome.sent) :
                     outcome \in Receiver_handle_request("codec-session", request,
                                                         storage).outcomes }
            : request \in CodecRequests,
              storage \in {None_storage,
                           Storage_set(InMemoryStorage_new,
                                       <<"path", "codec-session", 0, 2>>,
                                       to_vec([path |-> <<0, 2>>, distance |-> 4]))} }

CodecInit ==
    /\ host = "codec"
    /\ Idle
    /\ probe \in {[kind |-> "codec", type |-> "RequestEnum", value |-> request,
                   stage |-> "value", encoded |-> JNull, decoded |-> Err] :
                  request \in CodecRequests}
             \cup {[kind |-> "codec", type |-> "WireResponse", value |-> response,
                    stage |-> "value", encoded |-> JNull, decoded |-> Err] :
                   response \in WireResponses}

\* serde_json::to_string of the value.
Call_to_string ==
    /\ probe.kind = "codec"
    /\ probe.stage = "value"
    /\ probe' = [probe EXCEPT
                    !.stage = "encoded",
                    !.encoded = IF probe.type = "RequestEnum"
                                THEN ser_RequestEnum(probe.value)
                                ELSE ser_WireResponse(probe.value)]
    /\ UNCHANGED <<host, steps, cg_vars, shared_vars>>

\* serde_json::from_str of what to_string gave.
Call_from_str ==
    /\ probe.kind = "codec"
    /\ probe.stage = "encoded"
    /\ probe' = [probe EXCEPT
                    !.stage = "decoded",
                    !.decoded = IF probe.type = "RequestEnum"
                                THEN de_Request(probe.encoded)
                                ELSE de_WireResponse(probe.encoded)]
    /\ UNCHANGED <<host, steps, cg_vars, shared_vars>>

CodecNext == Call_to_string \/ Call_from_str

CodecSpec == CodecInit /\ [][CodecNext]_vars

\* --------------------------- the cg-types router while the clock advances
\* Seconds that pass in one run.
MaxClock == 2

TimedInit ==
    /\ host = "cg_timed"
    /\ Idle
    /\ probe = [kind |-> "clock", now |-> 0]

\* A second passes (one of the run's operations).
Tick ==
    /\ host = "cg_timed"
    /\ probe.now < MaxClock
    /\ steps < MaxSteps
    /\ steps' = steps + 1
    /\ probe' = [probe EXCEPT !.now = @ + 1]
    /\ UNCHANGED <<host, cg_vars, shared_vars>>

TimedNext ==
    \/ \E id \in RequestIds, op \in CgOps, c \in RCtx : send_request_Call(id, op, c)
    \/ \E id \in RequestIds, r \in AbortReasons, c \in RCtx : send_request_Abort(id, r, c)
    \/ \E id \in RequestIds, c \in RCtx, e \in ErrorTexts : send_error(id, c, e)
    \/ \E k \in 1..Len(calls), v \in NextValues : ObserverImpl_next(k, v)
    \/ \E k \in 1..Len(calls), e \in ErrorTexts : ObserverImpl_error(k, e)
    \/ \E k \in 1..Len(calls), n \in CompleteNotes : ObserverImpl_complete(k, n)
    \/ \E k \in 1..Len(calls) : ObserverImpl_into_parts(k)
    \/ \E k \in 1..Len(calls), v \in NextValues : Emitter_next(k, v)
    \/ \E k \in 1..Len(calls), e \in ErrorTexts : Completer_error(k, e)
    \/ \E k \in 1..Len(calls), n \in CompleteNotes : Completer_complete(k, n)
    \/ \E k \in 1..Len(calls), f \in {"emitters", "completers"} : Handle_clone(k, f)
    \/ \E k \in 1..Len(calls), f \in {"observer", "emitters", "completers"} : Handle_drop(k, f)
    \/ Tick

TimedSpec == TimedInit /\ [][TimedNext]_vars

\* ------------------- the shared-types ObserverImpl under direct call
\* Methods called on one sink in one run.
MaxSinkOps == 4
SinkValues == {[path |-> <<0>>, distance |-> 0], [path |-> <<0, 2>>, distance |-> 4]}

\* probe.tx is an ObserverImpl<PathResult> over a recording sender, probe.sent
\* what the sender received, probe.state what became of the sink ("observer"
\* while the caller holds it), probe.parts what into_parts gave.
SinkInit ==
    /\ host = "sink"
    /\ Idle
    /\ probe \in {[kind |-> "sink", tx |-> shared_ObserverImpl_new(id),
                   state |-> "observer", parts |-> [kind |-> "none"],
                   sent |-> <<>>, made |-> 0] : id \in RequestIds}

SinkOp ==
    /\ probe.kind = "sink"
    /\ probe.state = "observer"
    /\ probe.made < MaxSinkOps
    /\ UNCHANGED <<host, steps, cg_vars, shared_vars>>

\* tx.next(value)
Call_sink_next(value) ==
    /\ SinkOp
    /\ probe' = [probe EXCEPT
                    !.made = @ + 1,
                    !.sent = Append(@, shared_ObserverImpl_next(probe.tx,
                                           "find_shortest_path", value))]

\* tx.error(error)
Call_sink_error(error) ==
    /\ SinkOp
    /\ probe' = [probe EXCEPT
                    !.made = @ + 1,
                    !.state = "consumed",
                    !.sent = Append(@, shared_ObserverImpl_error(probe.tx, error))]

\* tx.complete(notes)
Call_sink_complete(notes) ==
    /\ SinkOp
    /\ probe' = [probe EXCEPT
                    !.made = @ + 1,
                    !.state = "consumed",
                    !.sent = Append(@, shared_ObserverImpl_complete(probe.tx, notes))]

\* tx.into_parts()
Call_sink_into_parts ==
    /\ SinkOp
    /\ LET parts == shared_ObserverImpl_into_parts(probe.tx)
       IN  probe' = [probe EXCEPT
                        !.made = @ + 1,
                        !.state = IF parts.kind = "panic" THEN "panicked" ELSE "split",
                        !.parts = parts]

SinkNext ==
    \/ \E value \in SinkValues : Call_sink_next(value)
    \/ \E error \in ErrorTexts : Call_sink_error(error)
    \/ \E notes \in CompleteNotes : Call_sink_complete(notes)
    \/ Call_sink_into_parts

SinkSpec == SinkInit /\ [][SinkNext]_vars

\* ------------------------------- utils.rs: the token under direct call
\* Operations made on controllers and signals in one run.
MaxTokenOps == 4

\* probe.handles are the AbortControllers and AbortSignals in the caller's
\* hands: each names the flag (an index into tokens, the Arc<AtomicBool>s) it
\* holds and the controller made by new() it descends from.  probe.log is what
\* was called, in order.
TokenInit ==
    /\ host = "token"
    /\ Idle
    /\ probe = [kind |-> "token", handles |-> <<>>, log |-> <<>>]

TokenOp ==
    /\ probe.kind = "token"
    /\ Len(probe.log) < MaxTokenOps
    /\ UNCHANGED <<host, steps, shared_vars, calls, handles, abort_controllers,
                   mvp_rctxs, wire, last>>

\* AbortController::new()
Call_AbortController_new ==
    /\ TokenOp
    /\ tokens' = Append(tokens, FALSE)
    /\ probe' = [probe EXCEPT
                    !.handles = Append(@, [type |-> "AbortController",
                                           flag |-> AbortController_new,
                                           root |-> Len(probe.handles) + 1]),
                    !.log = Append(@, [op |-> "new", via |-> 0])]

\* controller.abort()
Call_abort(h) ==
    /\ TokenOp
    /\ h \in DOMAIN probe.handles
    /\ probe.handles[h].type = "AbortController"
    /\ tokens' = abort(tokens, probe.handles[h].flag)
    /\ probe' = [probe EXCEPT !.log = Append(@, [op |-> "abort", via |-> h])]

\* controller.signal()
Call_signal(h) ==
    /\ TokenOp
    /\ h \in DOMAIN probe.handles
    /\ probe.handles[h].type = "AbortController"
    /\ probe' = [probe EXCEPT
                    !.handles = Append(@, [type |-> "AbortSignal",
                                           flag |-> signal(probe.handles[h].flag),
                                           root |-> probe.handles[h].root]),
                    !.log = Append(@, [op |-> "signal", via |-> h])]
    /\ UNCHANGED tokens

\* #[derive(Clone)] on AbortController and on AbortSignal: Arc::clone.
Call_token_clone(h) ==
    /\ TokenOp
    /\ h \in DOMAIN probe.handles
    /\ probe' = [probe EXCEPT
                    !.handles = Append(@, probe.handles[h]),
                    !.log = Append(@, [op |-> "clone", via |-> h])]
    /\ UNCHANGED tokens

TokenNext ==
    \/ Call_AbortController_new
    \/ \E h \in 1..MaxTokenOps : Call_abort(h)
    \/ \E h \in 1..MaxTokenOps : Call_signal(h)
    \/ \E h \in 1..MaxTokenOps : Call_token_clone(h)

TokenSpec == TokenInit /\ [][TokenNext]_vars

\* ----------------------- threads dispatching on one ResponseRouter at once
\* send_request is &self and the router is Sync: threads call it concurrently.
\* create_responder takes the write lock of abort_controllers for its insert,
\* releases it, takes the write lock of mvp_rctxs for its insert, releases it,
\* and only then aborts the controller it replaced: three steps that other
\* threads' steps can come between.  The Abort arm holds the read lock of
\* abort_controllers across its lookup and its abort(): one step.
\* Requests dispatched by all threads in one run.
MaxDispatches == 3
Threads == {"t1", "t2"}

\* probe.pc is each thread's position; probe.request, probe.abort_controller and
\* probe.existing are the locals of its send_request / create_responder.
ThreadInit ==
    /\ host = "cg_threads"
    /\ Idle
    /\ probe = [kind |-> "threads",
                made |-> 0,
                pc |-> [t \in Threads |-> "idle"],
                request |-> [t \in Threads |-> [id |-> 0, rctx |-> "none", op |-> "none"]],
                abort_controller |-> [t \in Threads |-> NoToken],
                existing |-> [t \in Threads |-> NoToken]]

ThreadKey(t) == <<probe.request[t].rctx, probe.request[t].id>>

\* A thread enters send_request.
Thread_enter(t, op, id, reply_context) ==
    /\ probe.kind = "threads"
    /\ probe.pc[t] = "idle"
    /\ probe.made < MaxDispatches
    /\ last' = [op |-> op, rctx |-> reply_context, id |-> id]
    /\ UNCHANGED <<host, steps, shared_vars>>

\* send_request, Abort arm, by thread t.
Thread_send_request_Abort(t, id, reason, reply_context) ==
    /\ Thread_enter(t, "Abort", id, reply_context)
    /\ send_request_abort_arm(id, reply_context)
    /\ probe' = [probe EXCEPT !.made = @ + 1]

\* send_request, Call arm, by thread t, up to create_responder's first line:
\* AbortController::new().
Thread_send_request_Call(t, id, op, reply_context) ==
    /\ Thread_enter(t, "Call", id, reply_context)
    /\ tokens' = Append(tokens, FALSE)
    /\ probe' = [probe EXCEPT
                    !.made = @ + 1,
                    !.pc[t] = "insert_controller",
                    !.request[t] = [id |-> id, rctx |-> reply_context, op |-> op],
                    !.abort_controller[t] = AbortController_new]
    /\ UNCHANGED <<calls, handles, abort_controllers, mvp_rctxs, wire>>

\* create_responder: abort_controllers.write().insert(key, controller.clone()),
\* the replaced controller kept in `existing`.
Thread_insert_controller(t) ==
    /\ probe.kind = "threads"
    /\ probe.pc[t] = "insert_controller"
    /\ abort_controllers' =
          [abort_controllers EXCEPT ![ThreadKey(t)] = probe.abort_controller[t]]
    /\ probe' = [probe EXCEPT
                    !.pc[t] = "insert_weak",
                    !.existing[t] = abort_controllers[ThreadKey(t)]]
    /\ UNCHANGED <<host, steps, shared_vars, tokens, calls, handles, mvp_rctxs, wire, last>>

\* create_responder: Arc::new(reply_context) and mvp_rctxs.write().insert(id,
\* weak).  The Arc is owned by the dispatch from here on (the local, then the
\* ActiveCall in the observer's Box): the call's record is made at this point.
Thread_insert_weak(t) ==
    /\ probe.kind = "threads"
    /\ probe.pc[t] = "insert_weak"
    /\ mvp_rctxs' = [mvp_rctxs EXCEPT ![probe.request[t].id] = Len(calls) + 1]
    /\ calls' = Append(calls,
          ActiveCall(probe.request[t].id, probe.request[t].rctx,
                     probe.abort_controller[t], probe.request[t].op))
    /\ create_observer
    /\ probe' = [probe EXCEPT !.pc[t] = "abort_existing"]
    /\ UNCHANGED <<host, steps, shared_vars, tokens, abort_controllers, wire, last>>

\* create_responder with the `a.abort()` on the replaced controller left out.
Thread_abort_existing_skips(t) ==
    /\ probe.kind = "threads"
    /\ probe.pc[t] = "abort_existing"
    /\ probe' = [probe EXCEPT !.pc[t] = "idle"]
    /\ UNCHANGED <<host, steps, shared_vars, tokens, calls, handles, abort_controllers,
                   mvp_rctxs, wire, last>>

\* create_responder: `if let Some(a) = existing { a.abort() }`, after which the
\* ActiveCall is boxed and given to the handler in its observer.
Thread_abort_existing(t) ==
    /\ probe.kind = "threads"
    /\ probe.pc[t] = "abort_existing"
    /\ tokens' = IF probe.existing[t] # NoToken
                 THEN abort(tokens, probe.existing[t])
                 ELSE tokens
    /\ probe' = [probe EXCEPT !.pc[t] = "idle"]
    /\ UNCHANGED <<host, steps, shared_vars, calls, handles, abort_controllers,
                   mvp_rctxs, wire, last>>

ThreadNext ==
    \/ \E t \in Threads, id \in RequestIds, r \in AbortReasons, c \in RCtx :
          Thread_send_request_Abort(t, id, r, c)
    \/ \E t \in Threads, id \in RequestIds, op \in CgOps, c \in RCtx :
          Thread_send_request_Call(t, id, op, c)
    \/ \E t \in Threads : Thread_insert_controller(t)
    \/ \E t \in Threads : Thread_insert_weak(t)
    \/ \E t \in Threads : Thread_abort_existing(t)

ThreadSpec == ThreadInit /\ [][ThreadNext]_vars

\* ----------------------------------- one shared-types Receiver, called
\* Receiver::new over a PathfinderHandler with or without storage, with or
\* without a storage of its own, kept for a sequence of requests.
ReceiverSessions == {"wasm-session", "test-session"}

ReceiverInit ==
    /\ host = "receiver"
    /\ Idle
    /\ \E session_id \in ReceiverSessions,
          handler_storage \in {None_storage, InMemoryStorage_new},
          storage \in {None_storage, InMemoryStorage_new} :
          probe = [kind |-> "receiver",
                   receiver |-> Receiver_new(session_id, [storage |-> handler_storage],
                                             storage),
                   before |-> Receiver_new(session_id, [storage |-> handler_storage],
                                           storage),
                   made |-> 0,
                   request |-> [op |-> "none", id |-> 0],
                   invoked |-> <<>>,
                   sent |-> <<>>,
                   fate |-> "returns"]

\* receiver.handle_request(request, sender), the handler run to its end.
\* probe.before is the receiver as it was when the call was made; the
\* handler's storage is behind an Arc and is written through &self.
Call_handle_request(request) ==
    /\ probe.kind = "receiver"
    /\ probe.fate = "returns"
    /\ probe.made < MaxRequests
    /\ LET h == Receiver_handle_request(probe.receiver.session_id, request,
                                        probe.receiver.handler.storage)
       IN  \E outcome \in h.outcomes :
              probe' = [kind |-> "receiver",
                        receiver |-> [probe.receiver EXCEPT
                                         !.handler.storage = outcome.storage],
                        before |-> probe.receiver,
                        made |-> probe.made + 1,
                        request |-> request,
                        invoked |-> h.invoked,
                        sent |-> outcome.sent,
                        fate |-> outcome.fate]
    /\ UNCHANGED <<host, steps, cg_vars, shared_vars>>

ReceiverNext == \E request \in Requests : Call_handle_request(request)

ReceiverSpec == ReceiverInit /\ [][ReceiverNext]_vars

\* ------------------------------- pathfinder-server with several connections
\* main accepts connections and spawns one handle_connection task for each.
\* A task owns its stream's two halves, its Receiver and its WebSocketSender;
\* the tasks run in parallel, and so do the tasks send_response spawns.
\* Messages sent by all peers in one run.
MaxMessages == 3
\* The peer addresses listener.accept() gives; a peer connects once in a run.
Peers == {"127.0.0.1:50000", "127.0.0.1:50001"}

\* What the peers send: a Call answered by N and Complete, an Abort, a Call
\* whose handler panics, a Call whose handler does not return, and text that
\* is not a Request.
ConnMessages ==
    { ser_RequestEnum([op |-> "Call", id |-> 1,
         call |-> [variant |-> "find_shortest_path",
                   params |-> [points |-> Triangle.points, edges |-> Triangle.edges,
                               start_idx |-> 0, end_idx |-> 2]]]),
      ser_RequestEnum([op |-> "Abort", id |-> 1, reason |-> "cancel"]),
      ser_RequestEnum([op |-> "Call", id |-> 1,
         call |-> [variant |-> "compute_graph_metrics",
                   params |-> [points |-> Dangling.points, edges |-> Dangling.edges]]]),
      ser_RequestEnum([op |-> "Call", id |-> 2,
         call |-> [variant |-> "find_shortest_path",
                   params |-> [points |-> Coincident.points, edges |-> Coincident.edges,
                               start_idx |-> 0, end_idx |-> 2]]]),
      Garbage }

\* format!("ws-{}", addr)
format_session_id(addr) == <<"ws-", addr>>

\* WebSocketSender::new with one process-wide sink: every sender writes to the
\* write half of the first peer's stream.
WebSocketSender_new_shared(write) == [sender |-> "127.0.0.1:50000"]

\* WebSocketSender::new(write): the Arc<Mutex<SplitSink>> over `write`.  A
\* write half is named by the peer its stream goes to.
WebSocketSender_new(write) == [sender |-> write]

NoConnection ==
    [state |-> "none", receiver |-> NoProbe, ws_sender |-> NoProbe,
     arrivals |-> 0, inbox |-> <<>>, reads |-> 0, dispatched |-> <<>>,
     handling |-> [n |-> 0, pending |-> <<>>, fate |-> "returns"],
     sent |-> <<>>]

\* probe.conn is each connection's task: where it is, its locals, how many
\* messages its stream has taken from the peer, those not yet read (each with
\* its arrival number), how many it has read, the Contexts of the handler
\* invocations it made and the send_response calls made on its sender.
\* probe.tasks are the spawned send tasks, probe.written what each write
\* half carried to its peer.
ConnInit ==
    /\ host = "connections"
    /\ Idle
    /\ probe = [kind |-> "connections",
                messages |-> 0,
                conn |-> [addr \in Peers |-> NoConnection],
                tasks |-> {},
                written |-> [addr \in Peers |-> <<>>]]

\* main: listener.accept() and tokio::spawn(handle_connection(stream, addr));
\* handle_connection up to its read loop.
handle_connection(addr) ==
    /\ probe.kind = "connections"
    /\ probe.conn[addr].state = "none"
    /\ probe' = [probe EXCEPT
          !.conn[addr].state = "reading",
          !.conn[addr].receiver =
              Receiver_new(format_session_id(addr), [storage |-> None_storage], None_storage),
          !.conn[addr].ws_sender = WebSocketSender_new(addr)]
    /\ UNCHANGED <<host, steps, cg_vars, shared_vars>>

\* The peer of a connection sends a text message; the stream keeps the
\* messages in the order sent.  The stream is gone once a panic has unwound
\* the connection's task.
Peer_send(addr, message) ==
    /\ probe.kind = "connections"
    /\ probe.conn[addr].state \notin {"none", "panicked"}
    /\ probe.messages < MaxMessages
    /\ probe' = [probe EXCEPT
          !.messages = @ + 1,
          !.conn[addr].arrivals = @ + 1,
          !.conn[addr].inbox =
              Append(@, [n |-> probe.conn[addr].arrivals + 1, text |-> message])]
    /\ UNCHANGED <<host, steps, cg_vars, shared_vars>>

\* Where a connection's task is once receiver.handle_request has made its
\* last send_response: back in the read loop, unwound by the handler's panic,
\* or inside a handler that does not return.
after_handle_request(ending) ==
    CASE ending = "returns" -> "reading"
      [] ending = "panics" -> "panicked"
      [] ending = "diverges" -> "diverged"

\* read.next().await gives the next message; serde_json::from_str; a Request
\* goes to receiver.handle_request with a clone of ws_sender, anything else is
\* logged.  The handler's run is `handling`: the responses it will hand to its
\* sender and how it ends; a run that sends nothing ends in this step.
handle_connection_read(addr) ==
    /\ probe.kind = "connections"
    /\ probe.conn[addr].state = "reading"
    /\ probe.conn[addr].inbox # <<>>
    /\ LET c == probe.conn[addr]
           n == Head(c.inbox).n
           decoded == de_Request(Head(c.inbox).text)
       IN  IF decoded.ok
           THEN LET h == Receiver_handle_request(c.receiver.session_id, decoded.value,
                                                 c.receiver.handler.storage)
                IN  /\ \E outcome \in h.outcomes :
                          probe' = [probe EXCEPT
                              !.conn[addr].inbox = Tail(@),
                              !.conn[addr].reads = @ + 1,
                              !.conn[addr].state =
                                  IF outcome.sent = <<>>
                                  THEN after_handle_request(outcome.fate)
                                  ELSE "handling",
                              !.conn[addr].dispatched =
                                  Append(@, [n |-> n,
                                             ctx |-> [v \in DOMAIN h.invoked |->
                                                         h.invoked[v].ctx]]),
                              !.conn[addr].handling =
                                  [n |-> n, pending |-> outcome.sent, fate |-> outcome.fate]]
                    /\ UNCHANGED stderr
           ELSE /\ probe' = [probe EXCEPT
                              !.conn[addr].inbox = Tail(@),
                              !.conn[addr].reads = @ + 1]
                /\ stderr' = stderr + 1
    /\ UNCHANGED <<host, steps, cg_vars, sent, invoked, ws_tasks, frames, fate, returned>>

\* WebSocketSender::send_response, called by the running handler (or by
\* handle_request for an Abort): Arc::clone(&self.sender) and tokio::spawn of
\* the task that will write.  After its last send_response the handler ends.
WebSocketSender_send_response(addr) ==
    /\ probe.kind = "connections"
    /\ probe.conn[addr].state = "handling"
    /\ probe.conn[addr].handling.pending # <<>>
    /\ LET c == probe.conn[addr]
           response == Head(c.handling.pending)
           sender == c.ws_sender.sender
       IN  probe' = [probe EXCEPT
              !.conn[addr].state =
                  IF Tail(c.handling.pending) = <<>>
                  THEN after_handle_request(c.handling.fate)
                  ELSE "handling",
              !.conn[addr].handling.pending = Tail(@),
              !.conn[addr].sent = Append(@, [n |-> c.handling.n, response |-> response]),
              !.tasks = @ \cup {[sender |-> sender, conn |-> addr,
                                 i |-> Len(c.sent) + 1]}]
    /\ UNCHANGED <<host, steps, cg_vars, shared_vars>>

\* A spawned send task: sender.lock().await and sender.send(Message::Text).
WebSocketSender_spawned(task) ==
    /\ probe.kind = "connections"
    /\ task \in probe.tasks
    /\ probe' = [probe EXCEPT
          !.tasks = @ \ {task},
          !.written[task.sender] = Append(@, [conn |-> task.conn, i |-> task.i])]
    /\ UNCHANGED <<host, steps, cg_vars, shared_vars>>

ConnTasks == [sender : Peers, conn : Peers, i : 1..(2 * MaxMessages)]

ConnNext ==
    \/ \E addr \in Peers : handle_connection(addr)
    \/ \E addr \in Peers, message \in ConnMessages : Peer_send(addr, message)
    \/ \E addr \in Peers : handle_connection_read(addr)
    \/ \E addr \in Peers : WebSocketSender_send_response(addr)
    \/ \E task \in ConnTasks : WebSocketSender_spawned(task)

ConnSpec == ConnInit /\ [][ConnNext]_vars

\* ------------------------------------------------------------------ claims
Terminal == {"Error", "Complete", "Aborted"}
LastKey == <<last.rctx, last.id>>
NewestCall == Len(calls)

\* Every handle of call k reads the call's flag as `b`: the controller in the
\* ActiveCall, the signal of get_abort_signal, check_aborted of its Emitters.
AllRead(k, b) ==
    /\ is_aborted(calls[k].abort_controller) = b
    /\ is_aborted(get_abort_signal(k)) = b
    /\ check_aborted(k) = ~b

\* C1: after send_request(Call(id, op), c) the new call's signal reads
\* not-aborted (until the next request is dispatched); after a later
\* send_request(Abort(id, reason), c), every signal and controller of every call
\* made under (c, id) reads aborted.
C1_CallThenAbort ==
    host = "cg_types" =>
        /\ last.op = "Call" => AllRead(NewestCall, FALSE)
        /\ last.op = "Abort" => \A k \in CallsOf(LastKey) : AllRead(k, TRUE)

\* C1 witness: an Abort was dispatched for a call that is still held by its
\* handler, and the call's emitter now sees the abort.
C1_Witness ==
    /\ host = "cg_types"
    /\ last.op = "Abort"
    /\ \E k \in CallsOf(LastKey) :
          Retained(k) /\ handles[k].emitters > 0 /\ ~check_aborted(k)

\* C2: of two calls dispatched under the same (reply context, id), the earlier
\* one's signal is aborted once the later one is registered, the later one has
\* a token of its own, and that token is not aborted when its dispatch returns.
C2_Supersede ==
    host = "cg_types" =>
        \A k1, k2 \in 1..Len(calls) :
            (/\ k1 < k2
             /\ calls[k1].request_id = calls[k2].request_id
             /\ calls[k1].reply_context = calls[k2].reply_context)
            => /\ AllRead(k1, TRUE)
               /\ calls[k1].abort_controller # calls[k2].abort_controller
               /\ (last.op = "Call" /\ k2 = NewestCall) => AllRead(k2, FALSE)

\* C2 witness: op1 has not terminated (its observer is still held) when the
\* second Call with its key has just been dispatched.
C2_Witness ==
    /\ host = "cg_types"
    /\ last.op = "Call"
    /\ \E k1 \in 1..Len(calls) :
          /\ k1 < NewestCall
          /\ calls[k1].request_id = calls[NewestCall].request_id
          /\ calls[k1].reply_context = calls[NewestCall].reply_context
          /\ handles[k1].observer = 1
          /\ ~\E i \in DOMAIN wire : wire[i].call = k1

\* C3 (as claimed): at most one terminal response is ever sent through the
\* handles of one call.
C3_AtMostOneTerminal ==
    \A k \in 1..Len(calls) :
        Cardinality({i \in DOMAIN wire :
            wire[i].call = k /\ wire[i].response.kind \in Terminal}) <= 1

\* C4 (as claimed): no Next response of a call follows a terminal response of
\* the same call.
C4_NoNextAfterTerminal ==
    \A i, j \in DOMAIN wire :
        (/\ i < j
         /\ wire[i].call # NoCall
         /\ wire[i].call = wire[j].call
         /\ wire[i].response.kind \in Terminal)
        => wire[j].response.kind # "N"

\* C5: dispatching an Abort for a key under which no Call was ever dispatched
\* is an ordinary step of the router that changes no token and neither registry
\* map, and sends nothing.
C5_UnknownAbort ==
    [][\A id \in RequestIds, c \in RCtx :
          ((\E r \in AbortReasons : send_request_Abort(id, r, c)) /\ CallsOf(<<c, id>>) = {})
          => UNCHANGED <<tokens, abort_controllers, mvp_rctxs, wire, calls, handles>>]_vars

\* C5 witness: the last request was an Abort for a key never called, while
\* another call is registered and its token is not aborted.
C5_Witness ==
    /\ host = "cg_types"
    /\ last.op = "Abort"
    /\ CallsOf(LastKey) = {}
    /\ \E k \in 1..Len(calls) :
          calls[k].request_id = last.id /\ AllRead(k, FALSE) /\ Retained(k)

\* The steps that dispatch an Abort request, in either router.
CgAbortStep == \E id \in RequestIds, r \in AbortReasons, c \in RCtx : send_request_Abort(id, r, c)
SharedAbortRequests == {request \in Requests : request.op = "Abort"}
SharedCallRequests == {request \in Requests : request.op = "Call"}

\* C6 (as claimed): dispatching an Abort sends no WireResponse and invokes no
\* handler method, in the cg-types router and in the shared-types router.
C6_AbortSendsNothing ==
    [][/\ CgAbortStep => UNCHANGED <<wire, calls, handles>>
       /\ \A request \in SharedAbortRequests :
             Serve(request) => (sent' = sent /\ invoked' = <<>>)]_vars

\* C6 (amended): dispatching an Abort never invokes a handler method.  In the
\* cg-types router it sends nothing and touches at most the token stored under
\* (reply context, id); in the shared-types router it trips no flag and sends
\* exactly one response, (id, Aborted(reason)).
C6_AbortDispatch ==
    [][/\ \A id \in RequestIds, c \in RCtx :
             (\E r \in AbortReasons : send_request_Abort(id, r, c))
             => /\ UNCHANGED <<wire, calls, handles, abort_controllers, mvp_rctxs>>
                /\ \A t \in DOMAIN tokens :
                      tokens'[t] # tokens[t] => t = abort_controllers[<<c, id>>]
       /\ \A request \in SharedAbortRequests :
             Serve(request)
             => /\ sent' = Append(sent, [id |-> request.id, kind |-> "Aborted",
                                         value |-> request.reason])
                /\ invoked' = <<>>
                /\ UNCHANGED tokens]_vars

\* C6 witness: a shared-types session that served a Call and then an Abort with
\* the same id; the Abort's answer is the last response sent.
C6_Witness ==
    /\ host \in {"wasm", "websocket"}
    /\ invoked = <<>>
    /\ Len(sent) > 1
    /\ sent[Len(sent)].kind = "Aborted"
    /\ \E i \in 1..(Len(sent) - 1) :
          sent[i].id = sent[Len(sent)].id /\ sent[i].kind # "Aborted"

\* C7: a response of kind Aborted is handed to a sender only by the step that
\* dispatches an Abort request, as that step's only response, with the Abort's
\* id and reason; the cg-types router, its sinks included, never sends one.
C7_AbortedOnlyFromAbort ==
    [][/\ \A i \in DOMAIN wire' : wire'[i].response.kind # "Aborted"
       /\ (\E i \in (Len(sent) + 1)..Len(sent') : sent'[i].kind = "Aborted")
          => \E request \in SharedAbortRequests :
                /\ Serve(request)
                /\ sent' = Append(sent, [id |-> request.id, kind |-> "Aborted",
                                         value |-> request.reason])]_vars

\* C7 witness: an Aborted response was sent in a session whose handler also
\* reported an error of its own (as Error, not as Aborted).
C7_Witness ==
    /\ \E i \in DOMAIN sent : sent[i].kind = "Aborted"
    /\ \E i \in DOMAIN sent : sent[i].kind = "Error"

\* C8: dispatching Call(id, op) in the shared-types router makes exactly one
\* handler invocation: of the method named by op's variant, with the request's
\* params as they are, a sink bound to id and the Context of that request.
C8_CallInvokesMatchingMethod ==
    [][\A request \in SharedCallRequests :
          Serve(request)
          => invoked' = <<[method |-> request.call.variant,
                           ctx |-> [session_id |-> SessionId,
                                    request_id |-> request.id,
                                    user_id |-> "None"],
                           params |-> request.call.params,
                           tx |-> [request_id |-> request.id]]>>]_vars

\* C8 witness: both methods of the handler have been invoked, each by a Call
\* of its own tag.
C8_Witness ==
    /\ Len(invoked) = 1
    /\ invoked[1].method = "compute_graph_metrics"
    /\ invoked[1].ctx.request_id = 2
    /\ \E i \in DOMAIN sent : sent[i].kind = "N" /\ sent[i].value.variant = "find_shortest_path"

\* The lookup and the calls it can speak of.
CallsWithId(id) == {k \in 1..Len(calls) : calls[k].request_id = id}
LiveCallsWithId(id) == {k \in CallsWithId(id) : Retained(k)}
LatestCallWithId(id) == CHOOSE k \in CallsWithId(id) : \A j \in CallsWithId(id) : j <= k

\* C9 (as claimed): while some ActiveCall registered under id is retained the
\* lookup gives the reply context of a retained call with that id, and it
\* gives none once no such call is retained.
C9_LookupWhileRetained ==
    host = "cg_types" =>
        \A id \in RequestIds :
            IF LiveCallsWithId(id) = {}
            THEN mvp_get_reply_context_from_request_id(id) = "none"
            ELSE \E k \in LiveCallsWithId(id) :
                    mvp_get_reply_context_from_request_id(id) = calls[k].reply_context

\* C9 (amended): the lookup follows the most recent Call dispatched with the
\* id: it gives that call's reply context while that call's ActiveCall is
\* retained and none once it is dropped (or when no Call had the id), whatever
\* earlier calls with the same id are still retained.
C9_LookupLatest ==
    host = "cg_types" =>
        \A id \in RequestIds :
            mvp_get_reply_context_from_request_id(id) =
                IF CallsWithId(id) # {} /\ Retained(LatestCallWithId(id))
                THEN calls[LatestCallWithId(id)].reply_context
                ELSE "none"

\* C9 witness: an id used by two calls under different reply contexts; the
\* earlier call is still retained, the later one was dropped, the lookup
\* gives none.
C9_Witness ==
    /\ host = "cg_types"
    /\ \E id \in RequestIds :
          /\ mvp_get_reply_context_from_request_id(id) = "none"
          /\ \E k \in LiveCallsWithId(id) :
                /\ k < LatestCallWithId(id)
                /\ calls[k].reply_context # calls[LatestCallWithId(id)].reply_context

\* C10 (as claimed): the responses of one request id reach the peer in the
\* order in which the sink methods handed them to send_response.
C10_PerIdWireOrder ==
    \A i, j \in DOMAIN frames :
        (i < j /\ sent[frames[i]].id = sent[frames[j]].id) => frames[i] < frames[j]

\* What the sender receives when call k responds with (kind, value).
Forwarded(k, kind, value) ==
    [rctx |-> calls[k].reply_context,
     response |-> [id |-> calls[k].request_id, kind |-> kind, value |-> value],
     call |-> k]
TerminalSent(k) ==
    \E i \in DOMAIN wire : wire[i].call = k /\ wire[i].response.kind \in Terminal

\* C11: once the token of a call is aborted, every next / error / complete made
\* through a handle of that call still hands the sender exactly one response,
\* with the call's reply context and id and the value given.
C11_AbortedCallStillResponds ==
    [][\A k \in 1..Len(calls) :
          is_aborted(calls[k].abort_controller) =>
             /\ \A v \in NextValues :
                   (ObserverImpl_next(k, v) \/ Emitter_next(k, v))
                   => wire' = Append(wire, Forwarded(k, "N", v))
             /\ \A e \in ErrorTexts :
                   (ObserverImpl_error(k, e) \/ Completer_error(k, e))
                   => wire' = Append(wire, Forwarded(k, "Error", e))
             /\ \A n \in CompleteNotes :
                   (ObserverImpl_complete(k, n) \/ Completer_complete(k, n))
                   => wire' = Append(wire, Forwarded(k, "Complete", n))]_vars

\* C11 witness: a call superseded by a later Call with its key (so its token is
\* aborted) has completed after the later call responded.
C11_Witness ==
    /\ host = "cg_types"
    /\ \E k1, k2 \in 1..Len(calls) :
          /\ k1 < k2
          /\ calls[k1].request_id = calls[k2].request_id
          /\ calls[k1].reply_context = calls[k2].reply_context
          /\ \E i, j \in DOMAIN wire :
                /\ i < j
                /\ wire[i].call = k2
                /\ wire[j] = Forwarded(k1, "Complete", "done")

\* The calls of a key that exist (some handle retains them) and have not sent
\* a terminal response.
InFlight(key) == {k \in CallsOf(key) : Retained(k) /\ ~TerminalSent(k)}

\* C12 (as claimed): at most one ActiveCall that has not sent a terminal
\* response exists per (reply context, request id).
C12_OneInFlightPerKey ==
    \A key \in Keys : Cardinality(InFlight(key)) <= 1

\* C12 (amended): per (reply context, request id) at most one ActiveCall has a
\* token that is not aborted, and it is the one made by the latest Call with
\* that key; earlier calls of the key may still exist and respond.
C12_OneLiveTokenPerKey ==
    host = "cg_types" =>
        \A key \in Keys :
            \A k \in CallsOf(key) :
                ~is_aborted(calls[k].abort_controller)
                => /\ \A j \in CallsOf(key) : j <= k
                   /\ abort_controllers[key] = calls[k].abort_controller

\* C12 witness: two calls of one key in flight at once, the earlier with its
\* token aborted, the later with its token not aborted.
C12_Witness ==
    /\ host = "cg_types"
    /\ \E key \in Keys :
          \E k1, k2 \in InFlight(key) :
             /\ k1 < k2
             /\ is_aborted(calls[k1].abort_controller)
             /\ ~is_aborted(calls[k2].abort_controller)

\* The responses a step hands to send_response.
NewlySent == SubSeq(sent', Len(sent) + 1, Len(sent'))

\* Reachability over the input edges taken in either direction.
RECURSIVE ReachableFrom(_, _)
ReachableFrom(edges, nodes) ==
    LET more == nodes
                \cup {edges[i].to : i \in {j \in DOMAIN edges : edges[j].from \in nodes}}
                \cup {edges[i].from : i \in {j \in DOMAIN edges : edges[j].to \in nodes}}
    IN  IF more = nodes THEN nodes ELSE ReachableFrom(edges, more)
Reachable(edges, a, b) == b \in ReachableFrom(edges, {a})

ValidIndices(params) ==
    /\ InBounds(params.points, params.start_idx)
    /\ InBounds(params.points, params.end_idx)
    /\ \A i \in DOMAIN params.edges :
          /\ InBounds(params.points, params.edges[i].from)
          /\ InBounds(params.points, params.edges[i].to)

\* C13 (as claimed): serving any Call, whatever its params, sends zero or more
\* N responses and then exactly one Error or Complete.
C13_CallEndsWithOneTerminal ==
    [][\A request \in SharedCallRequests :
          Serve(request)
          => /\ Len(NewlySent) >= 1
             /\ NewlySent[Len(NewlySent)].kind \in {"Error", "Complete"}
             /\ \A i \in 1..(Len(NewlySent) - 1) : NewlySent[i].kind = "N"]_vars

\* C14 (as claimed): find_shortest_path with valid indices and no cache hit
\* sends [N(result), Complete] for the call's id when end_idx is reachable from
\* start_idx, and [Error] alone when it is not.
C14_ReachableGivesNextComplete ==
    [][\A request \in SharedCallRequests :
          (/\ request.call.variant = "find_shortest_path"
           /\ ValidIndices(request.call.params)
           /\ Serve(request))
          => IF Reachable(request.call.params.edges,
                          request.call.params.start_idx, request.call.params.end_idx)
             THEN /\ Len(NewlySent) = 2
                  /\ NewlySent[1].id = request.id /\ NewlySent[1].kind = "N"
                  /\ NewlySent[2].id = request.id /\ NewlySent[2].kind = "Complete"
             ELSE /\ Len(NewlySent) = 1
                  /\ NewlySent[1].id = request.id /\ NewlySent[1].kind = "Error"]_vars

\* Walks of the graph: node sequences whose consecutive nodes are joined by an
\* input edge taken in either direction, and their length.
Joined(edges, u, v) ==
    \E i \in DOMAIN edges :
        \/ (edges[i].from = u /\ edges[i].to = v)
        \/ (edges[i].from = v /\ edges[i].to = u)
IsWalk(edges, walk) ==
    \A i \in 1..(Len(walk) - 1) : Joined(edges, walk[i], walk[i + 1])
RECURSIVE WalkLength(_, _, _)
WalkLength(points, walk, i) ==
    IF i <= 1 THEN 0
    ELSE WalkLength(points, walk, i - 1) + Weight(points, walk[i - 1], walk[i])
Walks == UNION {[1..n -> NodeIds] : n \in 1..(Cardinality(NodeIds) + 1)}
Computed == probe.kind = "compute_shortest_path" /\ probe.result.kind # "pending"

C16_ErrIffUnreachable ==
    Computed =>
        IF Reachable(probe.edges, probe.start_idx, probe.end_idx)
        THEN probe.result.kind = "Ok"
        ELSE probe.result = [kind |-> "Err", error |-> "No path found"]

\* C17: a message that is not a Request invokes no handler and sends no
\* response; send_request (WASM) returns an error to its caller, and the
\* WebSocket loop logs the failure and goes on reading.
C17_MalformedNeverDispatched ==
    [][\A message \in Malformed :
          Receive(message)
          => /\ UNCHANGED <<sent, ws_tasks, frames, fate>>
             /\ invoked' = <<>>
             /\ host = "wasm" => returned' = "Err"
             /\ host = "websocket" => stderr' = stderr + 1]_vars

\* C17 witness: a WebSocket connection that logged a malformed message and
\* then served a Call.
C17_Witness ==
    /\ host = "websocket"
    /\ stderr = 1
    /\ Len(invoked) = 1
    /\ Len(sent) > 0

\* The value of the last set of `key` in the first n entries of the log that
\* no delete of `key` follows.
RECURSIVE LastWrite(_, _, _)
LastWrite(log, key, n) ==
    IF n = 0 THEN [some |-> FALSE]
    ELSE IF log[n].op = "set" /\ log[n].key = key
         THEN [some |-> TRUE, bytes |-> log[n].value]
    ELSE IF log[n].op = "delete" /\ log[n].key = key
         THEN [some |-> FALSE]
    ELSE LastWrite(log, key, n - 1)

\* C18: through every clone of an InMemoryStorage, get(key) gives the value of
\* the latest set(key, _) that no delete(key) follows, whichever clones made
\* them, and none if there is none (so it depends on the operations on that
\* key alone); through a NoStorage, get gives none.
C18_LastWriteWins ==
    probe.kind = "storage" =>
        \A h \in DOMAIN probe.handles, key \in StorageKeys :
            Storage_get(probe.cells[probe.handles[h]], key) =
                IF probe.cells[1].kind = "NoStorage"
                THEN [some |-> FALSE]
                ELSE LastWrite(probe.log, key, Len(probe.log))

\* C18 witness: a key set through the storage, overwritten through its clone,
\* and read back through the storage itself: the clone's value comes back.
C18_Witness ==
    /\ probe.kind = "storage"
    /\ probe.cells[1].kind = "InMemoryStorage"
    /\ Len(probe.log) = 4
    /\ probe.log[1].op = "clone"
    /\ probe.log[2].op = "set" /\ probe.log[2].via = 1
    /\ probe.log[3].op = "set" /\ probe.log[3].via = 2
    /\ probe.log[3].key = probe.log[2].key
    /\ probe.log[3].value # probe.log[2].value
    /\ probe.log[4].op = "get" /\ probe.log[4].via = 1
    /\ probe.log[4].key = probe.log[2].key
    /\ probe.got = [some |-> TRUE, bytes |-> probe.log[3].value]

\* The outcomes of a call as the claim compares them: each response's kind, and
\* the value of each N.
Kinds(responses) == [i \in DOMAIN responses |-> responses[i].kind]
NextValuesOf(responses) ==
    LET IsNext(response) == response.kind = "N"
        nexts == SelectSeq(responses, IsNext)
    IN  [i \in DOMAIN nexts |-> nexts[i].value]

\* C19 (as claimed): every find_shortest_path call on a handler with storage
\* sends the N values and the kinds of outcome that the same call sends on a
\* handler without storage.
C19_StorageIsTransparent ==
    (probe.kind = "handler" /\ probe.made > 0) =>
        \E r \in probe.reference :
            /\ r.fate = probe.fate
            /\ Kinds(r.sent) = Kinds(probe.sent)
            /\ NextValuesOf(r.sent) = NextValuesOf(probe.sent)

\* C20 (as claimed): a Request and a WireResponse, encoded and then decoded,
\* come back equal to the original.
C20_RoundTrip ==
    (probe.kind = "codec" /\ probe.stage = "decoded") =>
        (probe.decoded.ok /\ probe.decoded.value = probe.value)

\* C21 (as claimed): whenever a create_responder has stored its new token in
\* abort_controllers under (reply context, id), the token it replaced there is
\* already aborted.
C21_PriorAbortedBeforeRegistered ==
    probe.kind = "threads" =>
        \A t \in Threads :
            (/\ probe.pc[t] \in {"insert_weak", "abort_existing"}
             /\ abort_controllers[ThreadKey(t)] = probe.abort_controller[t]
             /\ probe.existing[t] # NoToken)
            => is_aborted(probe.existing[t])

\* C22: a Call's dispatch binds the new ActiveCall to the id and the reply
\* context given to send_request; the binding never changes; and every response
\* handed to the sender through a call's handles carries that id and goes with
\* that reply context, whatever mvp_rctxs holds for the id.
C22_RepliesUseOwnContext ==
    [][/\ \A id \in RequestIds, c \in RCtx :
             (\E op \in CgOps : send_request_Call(id, op, c))
             => /\ Len(calls') = Len(calls) + 1
                /\ calls'[Len(calls')].request_id = id
                /\ calls'[Len(calls')].reply_context = c
       /\ \A k \in 1..Len(calls) : calls'[k] = calls[k]
       /\ \A i \in (Len(wire) + 1)..Len(wire') :
             wire'[i].call # NoCall
             => /\ wire'[i].call \in 1..Len(calls)
                /\ wire'[i].rctx = calls[wire'[i].call].reply_context
                /\ wire'[i].response.id = calls[wire'[i].call].request_id]_vars

\* C22 witness: the latest response came from a handle of a call whose id has
\* since been given to a Call under another reply context, so the lookup table
\* now answers with that other context.
C22_Witness ==
    /\ host = "cg_types"
    /\ Len(wire) > 0
    /\ LET k == wire[Len(wire)].call
       IN  /\ k # NoCall
           /\ wire[Len(wire)].rctx = calls[k].reply_context
           /\ mvp_get_reply_context_from_request_id(calls[k].request_id)
                 \notin {calls[k].reply_context, "none"}

\* abort() has been called, through some clone, on the controller that handle
\* h descends from.
AbortCalled(h) ==
    \E i \in DOMAIN probe.log :
        /\ probe.log[i].op = "abort"
        /\ probe.handles[probe.log[i].via].root = probe.handles[h].root

\* C23: every controller, clone and signal reads aborted exactly when abort()
\* has been called at least once on its controller or a clone of it: a new token
\* reads not-aborted, one abort() makes all of them read aborted, further
\* abort() calls change nothing, and nothing makes them read not-aborted again.
C23_TokenMonotonicShared ==
    probe.kind = "token" =>
        \A h \in DOMAIN probe.handles :
            is_aborted(probe.handles[h].flag) = AbortCalled(h)

\* C23 witness: a signal taken from a new controller, then abort() called twice
\* on the controller: the signal reads aborted.
C23_Witness ==
    /\ probe.kind = "token"
    /\ Len(probe.log) = 4
    /\ probe.log[1].op = "new"
    /\ probe.log[2] = [op |-> "signal", via |-> 1]
    /\ probe.log[3] = [op |-> "abort", via |-> 1]
    /\ probe.log[4] = [op |-> "abort", via |-> 1]
    /\ probe.handles[2].type = "AbortSignal"
    /\ is_aborted(probe.handles[2].flag)

\* The keys present in each registry map.
ControllerKeys == {key \in Keys : abort_controllers[key] # NoToken}
WeakIds == {id \in RequestIds : mvp_rctxs[id] # NoCall}

\* C24: send_request(Abort(id, _), c) changes no token other than the one
\* stored under (c, id): the tokens stored under another id, or under the same
\* id with another reply context, read as before, and both registry maps keep
\* their keys.
C24_AbortScopedByKey ==
    [][\A id \in RequestIds, c \in RCtx :
          (\E r \in AbortReasons : send_request_Abort(id, r, c))
          => /\ \A t \in DOMAIN tokens :
                   tokens'[t] # tokens[t] => t = abort_controllers[<<c, id>>]
             /\ \A key \in ControllerKeys \ {<<c, id>>} :
                   is_aborted(abort_controllers[key])' = is_aborted(abort_controllers[key])
             /\ ControllerKeys' = ControllerKeys
             /\ WeakIds' = WeakIds]_vars

\* C24 witness: an Abort was dispatched for (c, id) and tripped the token
\* stored there, while the token stored under the same id with the other reply
\* context and a token stored under the other id both still read not-aborted.
C24_Witness ==
    /\ host = "cg_types"
    /\ last.op = "Abort"
    /\ LastKey \in ControllerKeys
    /\ is_aborted(abort_controllers[LastKey])
    /\ \E key \in ControllerKeys :
          key[1] # last.rctx /\ key[2] = last.id /\ ~is_aborted(abort_controllers[key])
    /\ \E key \in ControllerKeys :
          key[2] # last.id /\ ~is_aborted(abort_controllers[key])

\* C25 (as claimed): once every handle of every call made under a (reply
\* context, id) has been dropped, the registry holds no owned copy of that reply
\* context for the call: no key of abort_controllers carries it with that id.
\* (Each key of abort_controllers is (reply_context.clone(), request_id).)
C25_NoOwnedContextAfterDrop ==
    host = "cg_types" =>
        \A key \in Keys :
            (CallsOf(key) # {} /\ \A k \in CallsOf(key) : ~Retained(k))
            => key \notin ControllerKeys

\* C26 (as claimed): in a shared-types session the responses sent for one
\* request id are N responses followed by at most one terminal response: a
\* response that another response of the same id follows is an N.
C26_PerIdNextThenOneTerminal ==
    host \in {"wasm", "websocket"} =>
        \A i, j \in DOMAIN sent :
            (i < j /\ sent[i].id = sent[j].id) => sent[i].kind = "N"

\* C27 (as claimed, for the shared-types ObserverImpl): into_parts gives an
\* Emitter and a Completer, both bound to the request id of the ObserverImpl
\* they were split from.
C27_PartsBoundToSameCall ==
    (probe.kind = "sink" /\ probe.parts.kind # "none") =>
        /\ probe.parts.kind = "parts"
        /\ probe.parts.emitter.request_id = probe.tx.request_id
        /\ probe.parts.completer.request_id = probe.tx.request_id

CallKey(k) == <<calls[k].reply_context, calls[k].request_id>>

\* C28: for a call split by into_parts, check_aborted on its Emitter gives Ok
\* exactly while the call's token is not aborted; an Abort that finds the
\* call's token, or a Call superseding it, dispatched after the split makes it
\* give an error, and once it gives an error it does so in every later state.
C28_EmitterSeesLiveFlag ==
    [][\A k \in 1..Len(calls) :
          handles[k].emitters > 0 =>
             /\ check_aborted(k) = ~is_aborted(calls[k].abort_controller)
             /\ check_aborted(k)' = ~tokens'[calls[k].abort_controller]
             /\ ~check_aborted(k) => ~check_aborted(k)'
             /\ (/\ abort_controllers[CallKey(k)] = calls[k].abort_controller
                 /\ \E r \in AbortReasons :
                       send_request_Abort(calls[k].request_id, r, calls[k].reply_context))
                => ~check_aborted(k)'
             /\ (\E op \in CgOps :
                    send_request_Call(calls[k].request_id, op, calls[k].reply_context))
                => ~check_aborted(k)']_vars

\* C28 witness: a call that was split, emitted a value through its Emitter and
\* then had an Abort dispatched for its key: its Emitter's check_aborted now
\* gives an error.
C28_Witness ==
    /\ host = "cg_types"
    /\ last.op = "Abort"
    /\ \E k \in CallsOf(LastKey) :
          /\ handles[k].emitters > 0
          /\ abort_controllers[LastKey] = calls[k].abort_controller
          /\ \E i \in DOMAIN wire : wire[i].call = k /\ wire[i].response.kind = "N"
          /\ ~check_aborted(k)

\* C29: a call's reference time is the clock's reading when its observer is
\* created, and no step changes it: not the passing of time, an Abort, another
\* call, an emission, the split into Emitter and Completer or a clone.
C29_ReferenceTimeFixed ==
    [][/\ \A k \in 1..Len(calls) : get_current_time(k)' = get_current_time(k)
       /\ (\E id \in RequestIds, op \in CgOps, c \in RCtx : send_request_Call(id, op, c))
          => handles'[Len(calls')].current_time = Utc_now]_vars

\* C29 witness: a call made at second 0 and split; a second has passed, a
\* later call has a later reference time, the first call's token is aborted and
\* an Abort has just been dispatched: the first call's Emitter still gives
\* second 0.
C29_Witness ==
    /\ host = "cg_timed"
    /\ probe.now > 0
    /\ last.op = "Abort"
    /\ \E k1, k2 \in 1..Len(calls) :
          /\ handles[k1].emitters > 0
          /\ get_current_time(k1) = 0
          /\ is_aborted(calls[k1].abort_controller)
          /\ get_current_time(k2) > 0

\* C30: no step takes a key out of abort_controllers or mvp_rctxs, and the key
\* of every call made stays in abort_controllers.  So for a call that has sent
\* its terminal response and whose token is still the one stored under its key,
\* an Abort for the key trips that token and sends nothing, and a Call for the
\* key trips it and stores a new token in its place.
C30_RegistryOnlyGrows ==
    [][/\ ControllerKeys \subseteq ControllerKeys'
       /\ WeakIds \subseteq WeakIds'
       /\ \A k \in 1..Len(calls) :
             /\ CallKey(k) \in ControllerKeys'
             /\ (TerminalSent(k) /\ abort_controllers[CallKey(k)] = calls[k].abort_controller)
                => /\ (\E r \in AbortReasons :
                          send_request_Abort(calls[k].request_id, r, calls[k].reply_context))
                      => /\ tokens'[calls[k].abort_controller]
                         /\ wire' = wire
                         /\ abort_controllers' = abort_controllers
                   /\ (\E op \in CgOps :
                          send_request_Call(calls[k].request_id, op, calls[k].reply_context))
                      => /\ tokens'[calls[k].abort_controller]
                         /\ abort_controllers'[CallKey(k)] = calls'[Len(calls')].abort_controller
                         /\ ~tokens'[abort_controllers'[CallKey(k)]]]_vars

\* C30 witness: two calls made one after the other under one key, each
\* completed and dropped; an Abort for the key has just been dispatched: it
\* found the second call's token, which now reads aborted, and the last
\* response sent is still the second call's Complete.
C30_Witness ==
    /\ host = "cg_types"
    /\ last.op = "Abort"
    /\ \E k1, k2 \in CallsOf(LastKey) :
          /\ k1 < k2
          /\ TerminalSent(k1) /\ ~Retained(k1) /\ is_aborted(calls[k1].abort_controller)
          /\ TerminalSent(k2) /\ ~Retained(k2) /\ is_aborted(calls[k2].abort_controller)
          /\ abort_controllers[LastKey] = calls[k2].abort_controller
          /\ wire[Len(wire)].call = k2
          /\ Len(wire) = 2

\* C31 (as claimed): for every input with valid indices compute_shortest_path
\* returns: the backward walk of reconstruct_path reaches start, and when end
\* is reachable the result is Ok, never the "Path reconstruction failed" panic.
C31_AlwaysReturns ==
    Computed =>
        /\ probe.result.kind \in {"Ok", "Err"}
        /\ Reachable(probe.edges, probe.start_idx, probe.end_idx)
           => probe.result.kind = "Ok"

\* No create_responder is in progress on any thread.
NoneInProgress == probe.kind = "threads" /\ \A t \in Threads : probe.pc[t] = "idle"

\* Every dispatch so far was a Call (each Call makes one token).
OnlyCallsDispatched == probe.made = Len(tokens)

\* C32: after Calls dispatched by two threads, with the same (reply context,
\* id) and interleaved in any way, have all left create_responder, exactly one
\* of the tokens registered under the key is not aborted; it is the one stored
\* in abort_controllers; every other token registered under the key, the one
\* of an earlier finished Call included, is aborted.
C32_OneLiveTokenAfterRace ==
    (NoneInProgress /\ OnlyCallsDispatched) =>
        \A key \in Keys :
            CallsOf(key) # {} =>
                \E k \in CallsOf(key) :
                    /\ abort_controllers[key] = calls[k].abort_controller
                    /\ ~is_aborted(calls[k].abort_controller)
                    /\ \A j \in CallsOf(key) \ {k} :
                          is_aborted(calls[j].abort_controller)

\* C32 witness: a Call of a key finished, then two threads raced on the same
\* key; the thread that stored its token last made its call record first, so
\* the surviving token is the second call's and the third call's is aborted.
C32_Witness ==
    /\ NoneInProgress
    /\ OnlyCallsDispatched
    /\ \E key \in Keys :
          /\ CallsOf(key) = {1, 2, 3}
          /\ abort_controllers[key] = calls[2].abort_controller
          /\ calls[2].abort_controller = 3
          /\ calls[3].abort_controller = 2
          /\ is_aborted(1) /\ is_aborted(2) /\ ~is_aborted(3)

\* C33 (as claimed): whenever no create_responder is in progress, the weak
\* reference stored in mvp_rctxs for a request id belongs to the ActiveCall
\* whose token abort_controllers stores under that call's (reply context, id).
C33_MapsAgree ==
    NoneInProgress =>
        \A id \in WeakIds :
            abort_controllers[CallKey(mvp_rctxs[id])]
                = calls[mvp_rctxs[id]].abort_controller

\* The connections accepted so far.
Accepted == {addr \in Peers : probe.conn[addr].state # "none"}

\* C34: with several WebSocket connections open at once, (1) every frame a
\* write half carries answers a request that arrived on that same connection;
\* (2) each connection has a Receiver of its own whose session id is made from
\* its peer address, no two alike, and every handler invocation sees that
\* session id; (3) a connection dispatches its requests in the order its
\* messages arrived, and every send_response of one request is made before the
\* connection reads its next message.
C34_SessionsIsolated ==
    probe.kind = "connections" =>
        \A addr \in Peers :
            LET c == probe.conn[addr]
            IN  /\ \A f \in DOMAIN probe.written[addr] :
                      /\ probe.written[addr][f].conn = addr
                      /\ probe.written[addr][f].i \in DOMAIN c.sent
                /\ addr \in Accepted =>
                      /\ c.receiver.session_id = format_session_id(addr)
                      /\ \A other \in Accepted \ {addr} :
                            probe.conn[other].receiver.session_id # c.receiver.session_id
                /\ \A m \in DOMAIN c.inbox : c.inbox[m].n = c.reads + m
                /\ \A d \in DOMAIN c.dispatched :
                      /\ c.dispatched[d].n <= c.reads
                      /\ \A e \in DOMAIN c.dispatched :
                            d < e => c.dispatched[d].n < c.dispatched[e].n
                      /\ \A v \in DOMAIN c.dispatched[d].ctx :
                            c.dispatched[d].ctx[v].session_id = c.receiver.session_id
                /\ \A i \in DOMAIN c.sent :
                      /\ \E d \in DOMAIN c.dispatched : c.dispatched[d].n = c.sent[i].n
                      /\ \A j \in DOMAIN c.sent : i < j => c.sent[i].n <= c.sent[j].n
                /\ c.handling.pending # <<>> =>
                      /\ c.state = "handling"
                      /\ c.handling.n = c.reads
                      /\ \A i \in DOMAIN c.sent : c.sent[i].n <= c.handling.n

\* C34 witness: two connections open; the first dispatched two requests and
\* its three responses were written to its own peer, the second of them
\* before the first; the second connection's response went to its own peer.
C34_Witness ==
    /\ probe.kind = "connections"
    /\ Accepted = Peers
    /\ probe.tasks = {}
    /\ LET a == "127.0.0.1:50000"
           b == "127.0.0.1:50001"
       IN  /\ Len(probe.conn[a].dispatched) = 2
           /\ Len(probe.conn[a].sent) = 3
           /\ Len(probe.written[a]) = 3
           /\ [i \in 1..3 |-> probe.conn[a].sent[i].n] = <<1, 1, 2>>
           /\ probe.written[a][1].i = 2
           /\ Len(probe.conn[b].sent) = 1
           /\ Len(probe.written[b]) = 1

\* A request has been handled by the Receiver under direct call.
Handled == probe.kind = "receiver" /\ probe.made > 0

\* What C35 says of the Context and of the responses: the handler invoked
\* for Call(id, op) gets request_id = id and the receiver's session id, and
\* every response sent carries id.
C35_ContextAndIds ==
    /\ probe.request.op = "Call" =>
          /\ Len(probe.invoked) = 1
          /\ probe.invoked[1].ctx.request_id = probe.request.id
          /\ probe.invoked[1].ctx.session_id = probe.before.session_id
    /\ \A i \in DOMAIN probe.sent : probe.sent[i].id = probe.request.id

\* C35 (as claimed): the Context and the responses are the request's, and
\* handling a request leaves the receiver's session id, handler and storage
\* as they were.
C35_ReceiverUnchanged ==
    Handled =>
        /\ C35_ContextAndIds
        /\ probe.receiver = probe.before

\* C35 (amended): the Context and the responses are the request's; handling
\* a request leaves the receiver's session id and its own storage as they
\* were; the handler keeps its storage, in which a find_shortest_path that
\* computed a path writes the entry of its cache key and changes no other.
C35_ReceiverUnchangedButCache ==
    Handled =>
        /\ C35_ContextAndIds
        /\ probe.receiver.session_id = probe.before.session_id
        /\ probe.receiver.storage = probe.before.storage
        /\ probe.receiver.handler.storage.kind = probe.before.handler.storage.kind
        /\ probe.receiver.handler # probe.before.handler =>
              /\ probe.request.op = "Call"
              /\ probe.request.call.variant = "find_shortest_path"
              /\ \E i \in DOMAIN probe.sent : probe.sent[i].kind = "N"
              /\ LET old == probe.before.handler.storage.data
                     new == probe.receiver.handler.storage.data
                     key == cache_key(probe.invoked[1].ctx, probe.request.call.params)
                 IN  /\ DOMAIN new = DOMAIN old \cup {key}
                     /\ \A k \in DOMAIN old \ {key} : new[k] = old[k]

\* C35 witness: a Receiver whose handler has storage handled Call(2,
\* find_shortest_path): the Context carried id 2 and the session id, both
\* responses carried 2, and the handler's storage gained the cache entry.
C35_Witness ==
    /\ Handled
    /\ probe.request.op = "Call"
    /\ probe.request.id = 2
    /\ probe.invoked[1].ctx = Context_new(probe.receiver.session_id, 2)
    /\ Len(probe.sent) = 2
    /\ probe.sent[1].id = 2 /\ probe.sent[2].id = 2
    /\ probe.receiver.storage = InMemoryStorage_new
    /\ probe.before.handler.storage = InMemoryStorage_new
    /\ probe.receiver.handler.storage # InMemoryStorage_new

====
